---- MODULE Spec2Model ----
(***************************************************************************)
(* Webhook gateway: handleWebhookEntry (controller), getDb (mongo          *)
(* connection singleton), WebhookEventLogger (outcome store) and the       *)
(* micro-backend forwarder with its bounded retry loop.                    *)
(*                                                                         *)
(* Every inbound request that passed the middleware chain is one handler   *)
(* (an element of Events).  Handlers interleave at their await points.     *)
(***************************************************************************)
EXTENDS Integers, Sequences, FiniteSets, TLC

----------------------------------------------------------------------------
(* Program constants *)

(* variant: one attempt more *)
MAX_MICRO_BACKEND_RETRIES_more == 3 + 1

MAX_MICRO_BACKEND_RETRIES == 3

BackoffUnitMs == 1000

(* err?.response?.status of an error that carries no response *)
NoStatus == -1

----------------------------------------------------------------------------
(* Inputs *)

Events == {"evt_1", "evt_2"}

(* now at process start, in ms; the second value sits just below a second   *)
(* boundary so that any later clock reading falls into another second       *)
StartTimes == {60000, 60999}

(* values an environment variable can have: "" is unset *)
UrlValues == {"", "http://mb"}
SecretValues == {"", "S2"}
JwtValues == {"", "jwt"}
MongoUriValues == {"", "mongodb://h"}

(* env.SERVICE_ROLE: the public edge, or a role behind it *)
ServiceRoles == {"webhook-edge", "worker"}

(* statuses with which http.post resolves *)
ResolveStatuses == {200, 201, 302, 399}

(* statuses carried by the error with which http.post rejects *)
RejectStatuses == {400, 404, 408, 429, 499, 500, 503, NoStatus}

(* values getJitterDelay(500) can return *)
JitterValues == {250, 500}

CorrelationIds == {"", "corr_1"}

(* JavaScript values of the inbound body: a string, a number or undefined *)
JsStr(s) == [t |-> "string", s |-> s, n |-> 0]
JsNum(n) == [t |-> "number", s |-> "", n |-> n]
JsUndefined == [t |-> "undefined", s |-> "", n |-> 0]

(* req.normalizedPayload: a body with type and id, a body whose type and id *)
(* are present but falsy, and a body without them ({} when the request      *)
(* carries no normalizedPayload); a key the body lacks reads as undefined   *)
Payloads ==
    {[type |-> JsStr("user.created"), id |-> JsStr("evt_123"), data |-> JsStr("456")],
     [type |-> JsStr(""), id |-> JsNum(0), data |-> JsStr("456")],
     [type |-> JsUndefined, id |-> JsUndefined, data |-> JsUndefined]}

(* the secret inbound signatures are verified with *)
InboundSecretValues == {"S1"}

----------------------------------------------------------------------------
VARIABLES
    world,        \* the run's surroundings: requests, destination, timer jitter
    retry,        \* a call of isRetryableError: its argument and what it returned
    shut,         \* the worker process: shutdown calls, closed clients, exit
    env,          \* process configuration (config/env, process.env)
    now,          \* Date.now() in ms
    client,       \* mongo.ts: let client (0 is null, else the client's id)
    db,           \* mongo.ts: let db (0 is null, else the id of its client)
    nClients,     \* number of MongoClient objects created so far
    pc,           \* position of each handler
    inCatch,      \* handler is inside the catch block of handleWebhookEntry
    req,          \* the request fields the handler reads
    fwd,          \* state of the retry loop of forwardWithRetry
    attempt,      \* loop variable attempt of forwardWithRetry
    request,      \* url, payload and headers handed to forwardWithRetry
    sent,         \* the http.post calls made, in order
    waits,        \* the backoff delays waited, in order
    deadline,     \* time at which the pending backoff timer fires
    outcomes,     \* how each http.post settled, in order
    result,       \* value returned by forwardToDestination
    dest,         \* forwarder that was called for the event
    store,        \* collection webhook_events: its documents, grouped by event_id
    writes,       \* the logger calls made for each event id, in order of settling
    inflight,     \* logger calls of other callers whose updateOne is pending
    inbound,      \* the inbound HTTP request of each handler, as received
    edge,         \* position of each request in the middleware chain
    replays,      \* ReplayGuard store: the entries recorded for each fingerprint
    response      \* HTTP response sent to the inbound caller

vars == <<world, retry, shut, env, now, client, db, nClients, pc, inCatch, req, fwd, attempt,
          request, sent, waits, deadline, outcomes, result, dest, store,
          writes, inflight, inbound, edge, replays, response>>

mongoVars == <<client, db, nClients>>
logVars == <<store, writes, inflight>>
edgeVars == <<inbound, edge, replays>>
fwdVars == <<fwd, attempt, request, sent, waits, deadline, outcomes,
             result, dest>>

----------------------------------------------------------------------------
(* Values *)

Max(a, b) == IF a >= b THEN a ELSE b

Digit(d) == <<"0", "1", "2", "3", "4", "5", "6", "7", "8", "9">>[d + 1]

RECURSIVE NumberToString(_)
(* Number.prototype.toString of a non-negative integer: its decimal digits *)
NumberToString(n) == IF n < 10 THEN <<Digit(n)>>
                     ELSE Append(NumberToString(n \div 10), Digit(n % 10))

NoBody == [tag |-> "undefined", val |-> 0]

NoResult == [ok |-> FALSE, status |-> NoStatus, body |-> NoBody]

(* a document of webhook_events; a field the document lacks is <<>>, "" or   *)
(* NoStatus, and status "absent" stands for no document at all              *)
NoRecord == [event_id |-> "", status |-> "absent", error_code |-> <<>>, error_message |-> <<>>,
             last_error |-> <<>>, retry_count |-> 0,
             response_status |-> NoStatus, correlation_id |-> "",
             timestamp |-> 0]

NoResponse == [code |-> 0, status |-> "", internal_event_id |-> ""]

NoRequest == [url |-> <<>>, payload |-> <<>>, headers |-> <<>>]

NoReq == [correlationId |-> "",
          normalizedPayload |-> [type |-> JsUndefined, id |-> JsUndefined,
                                 data |-> JsUndefined],
          headers |-> [xSignature |-> <<>>, xTimestamp |-> <<>>]]

(* the ways one http.post call can settle *)
(* resolve: res.status and res.data; reject: err.response.status and        *)
(* err.response.data, both undefined when the error carries no response     *)
HttpOutcomes ==
    {[kind |-> "resolve", status |-> s, data |-> [tag |-> "data", val |-> s]] :
        s \in ResolveStatuses}
    \cup
    {[kind |-> "reject", status |-> s,
      data |-> IF s = NoStatus THEN NoBody ELSE [tag |-> "errdata", val |-> s]] :
        s \in RejectStatuses}

Terminal == {"Succeeded", "FailedTerminal", "FailedExhausted"}

----------------------------------------------------------------------------
(* microBackendForwarder.ts *)

(* HMAC-SHA256 hex digest, kept symbolic: equal digests iff equal key and message *)
HmacSha256Hex(secret, message) == [alg |-> "sha256", key |-> secret, msg |-> message]

(* a JavaScript value in a boolean context: "", 0 and undefined are falsy *)
Truthy(v) == (v.t = "string" /\ v.s # "") \/ (v.t = "number" /\ v.n # 0)

(* one member of a JSON object, left out when its value is undefined *)
JsonMember(key, v) == IF v.t = "undefined" THEN <<>> ELSE <<<<key, v>>>>

(* JSON.stringify of an inbound body: its members in insertion order *)
JsonStringifyBody(p) ==
    JsonMember("type", p.type) \o JsonMember("id", p.id) \o JsonMember("data", p.data)

(* JSON.stringify of the adapted envelope: compact, members in insertion    *)
(* order, correlation_id left out when undefined                            *)
JsonStringify(o) ==
    <<<<"source", o.source>>, <<"event_type", o.event_type>>,
      <<"external_id", o.external_id>>, <<"payload", JsonStringifyBody(o.payload)>>,
      <<"occurred_at", o.occurred_at>>>>
    \o (IF o.correlation_id = "" THEN <<>>
        ELSE <<<<"correlation_id", o.correlation_id>>>>)
    \o <<<<"internal_event_id", o.internal_event_id>>>>

(* variant: the timestamp returned is in milliseconds, the one signed in seconds *)
generateMicroBackendSignature_ms(payload, secret, t) ==
    LET timestamp == NumberToString(t \div 1000)
        message == [ts |-> timestamp, sep |-> ".", json |-> JsonStringify(payload)]
    IN [signature |-> HmacSha256Hex(secret, message), timestamp |-> NumberToString(t)]

generateMicroBackendSignature(payload, secret, t) ==
    LET timestamp == NumberToString(t \div 1000)
        message == [ts |-> timestamp, sep |-> ".", json |-> JsonStringify(payload)]
    IN [signature |-> HmacSha256Hex(secret, message), timestamp |-> timestamp]

adaptPayloadForMicroBackend(normalizedPayload, internalEventId, correlationId, t) ==
    [source |-> "webhook-gateway",
     event_type |-> IF Truthy(normalizedPayload.type) THEN normalizedPayload.type
                    ELSE JsStr("webhook_received"),
     external_id |-> IF Truthy(normalizedPayload.id) THEN normalizedPayload.id
                     ELSE JsStr(internalEventId),
     payload |-> normalizedPayload,
     occurred_at |-> t,
     correlation_id |-> correlationId,
     internal_event_id |-> internalEventId]

(* variant: the Authorization header is set whether or not a token is configured *)
BuildHeaders_alwaysAuth(sig, deviceId, jwtToken, correlationId) ==
    [ContentType |-> "application/json",
     XSignature |-> sig.signature,
     XTimestamp |-> sig.timestamp,
     XDeviceID |-> deviceId,
     Authorization |-> <<"Bearer ", jwtToken>>,
     XCorrelationId |-> IF correlationId # "" THEN correlationId ELSE ""]

(* the headers object of forwardToMicroBackend; an absent header is "" *)
BuildHeaders(sig, deviceId, jwtToken, correlationId) ==
    [ContentType |-> "application/json",
     XSignature |-> sig.signature,
     XTimestamp |-> sig.timestamp,
     XDeviceID |-> deviceId,
     Authorization |-> IF jwtToken # "" THEN <<"Bearer ", jwtToken>> ELSE <<>>,
     XCorrelationId |-> IF correlationId # "" THEN correlationId ELSE ""]

(* variant: the inbound X-Signature and X-Timestamp are passed on *)
BuildRequest_forwardsInbound(e, r, cfg, t) ==
    LET adaptedPayload == adaptPayloadForMicroBackend(r.normalizedPayload, e,
                                                      r.correlationId, t)
        sig == [signature |-> r.headers.xSignature, timestamp |-> r.headers.xTimestamp]
    IN [url |-> <<cfg.MICRO_BACKEND_URL, "/api/v1/flow/create">>,
        payload |-> <<adaptedPayload>>,
        headers |-> <<BuildHeaders(sig, cfg.MICRO_BACKEND_DEVICE_ID,
                                   cfg.MICRO_BACKEND_JWT, r.correlationId)>>]

(* url, payload and headers that forwardToMicroBackend hands to forwardWithRetry *)
BuildRequest(e, r, cfg, t) ==
    LET adaptedPayload == adaptPayloadForMicroBackend(r.normalizedPayload, e,
                                                      r.correlationId, t)
        sig == generateMicroBackendSignature(adaptedPayload,
                                             cfg.MICRO_BACKEND_HMAC_SECRET, t)
    IN [url |-> <<cfg.MICRO_BACKEND_URL, "/api/v1/flow/create">>,
        payload |-> <<adaptedPayload>>,
        headers |-> <<BuildHeaders(sig, cfg.MICRO_BACKEND_DEVICE_ID,
                                   cfg.MICRO_BACKEND_JWT, r.correlationId)>>]

(* variant: the envelope is adapted and signed anew for every attempt *)
AttemptRequest_resigned(fixed, e, r, cfg, t) == BuildRequest(e, r, cfg, t)

(* the arguments of the http.post call of an attempt: the parameters of     *)
(* forwardWithRetry, whatever the time t of the attempt                     *)
AttemptRequest(fixed, e, r, cfg, t) == fixed

(* one http.post(url, payload, {headers}) call, made as attempt n at time t *)
Post(r, n, t) == [req |-> r, n |-> n, at |-> t]

(* for (...; attempt <= maxRetries; ...) *)
LoopTest(n, maxRetries) == n <= maxRetries

(* variant: err.response.status without optional chaining *)
ErrStatus_unguarded(o) == [threw |-> o.status = NoStatus, status |-> o.status]

(* const status = err?.response?.status: optional chaining never throws *)
ErrStatus(o) == [threw |-> FALSE, status |-> o.status]

(* variant: status > 400 *)
IsNonRetryable_gt400(status) ==
    status # NoStatus /\ status # 0 /\ status > 400 /\ status < 500 /\ status # 429

(* variant: 429 not exempted *)
IsNonRetryable_no429(status) ==
    status # NoStatus /\ status # 0 /\ status >= 400 /\ status < 500

(* the test of the catch block: a 4xx other than 429 is not retried *)
IsNonRetryable(status) ==
    status # NoStatus /\ status # 0 /\ status >= 400 /\ status < 500 /\ status # 429

(* variant: attempt <= maxRetries *)
ShouldWait_le(n, maxRetries) == n <= maxRetries

(* if (attempt < maxRetries): wait and go round again *)
ShouldWait(n, maxRetries) == n < maxRetries

(* variant: the exponent counts from zero *)
BackoffDelay_fromZero(n, jitter) == (2 ^ (n - 1)) * BackoffUnitMs + jitter

(* delay before the next attempt *)
BackoffDelay(n, jitter) == (2 ^ n) * BackoffUnitMs + jitter

(* variant: a fixed status 200 and no body *)
OnResolve_fixed(o) == [ok |-> TRUE, status |-> 200, body |-> NoBody]

(* return { ok: true, status: res.status, body: res.data } *)
OnResolve(o) == [ok |-> TRUE, status |-> o.status, body |-> o.data]

(* return { ok: false, status, body: err?.response?.data } *)
OnNonRetryable(o) == [ok |-> FALSE, status |-> o.status, body |-> o.data]

(* variant: the status of the last error is handed on *)
OnExhausted_lastStatus(lastErrorStatus) ==
    [ok |-> FALSE, status |-> lastErrorStatus,
     body |-> [tag |-> "error", val |-> lastErrorStatus]]

(* return { ok: false, status: 0, body: { error: lastError?.message } } *)
OnExhausted(lastErrorStatus) ==
    [ok |-> FALSE, status |-> 0, body |-> [tag |-> "error", val |-> lastErrorStatus]]

(* lastError of forwardWithRetry, by the status its response carried *)
LastError(os) == IF os = <<>> THEN NoStatus ELSE os[Len(os)].status

(* what the body of the retry loop does once http.post has settled as o in  *)
(* attempt n: return a result, wait, fall out of the loop, or throw         *)
AttemptStep(o, n, maxRetries) ==
    IF o.kind = "resolve"
    THEN [do |-> "return", state |-> "Succeeded", result |-> OnResolve(o)]
    ELSE IF ErrStatus(o).threw
    THEN [do |-> "throw", state |-> "Thrown", result |-> NoResult]
    ELSE IF IsNonRetryable(ErrStatus(o).status)
    THEN [do |-> "return", state |-> "FailedTerminal", result |-> OnNonRetryable(o)]
    ELSE IF ShouldWait(n, maxRetries)
    THEN [do |-> "wait", state |-> "Waiting", result |-> NoResult]
    ELSE IF LoopTest(n + 1, maxRetries)
    THEN [do |-> "post", state |-> "Attempting", result |-> NoResult]
    ELSE [do |-> "return", state |-> "FailedExhausted",
          result |-> OnExhausted(ErrStatus(o).status)]

(* variant: the secret is tested before the URL *)
ConfigCheck_secretFirst(cfg) ==
    IF cfg.MICRO_BACKEND_HMAC_SECRET = "" THEN "secretMissing"
    ELSE IF cfg.MICRO_BACKEND_URL = "" THEN "skip"
    ELSE "ok"

(* variant: the secret is not tested *)
ConfigCheck_noSecret(cfg) ==
    IF cfg.MICRO_BACKEND_URL = "" THEN "skip" ELSE "ok"

(* if (!baseUrl) ...; if (!hmacSecret) ...: the configuration tests of      *)
(* forwardToMicroBackend, in their order                                    *)
ConfigCheck(cfg) ==
    IF cfg.MICRO_BACKEND_URL = "" THEN "skip"
    ELSE IF cfg.MICRO_BACKEND_HMAC_SECRET = "" THEN "secretMissing"
    ELSE "ok"

(* return { ok: true, status: 204 } *)
SkipResult == [ok |-> TRUE, status |-> 204, body |-> NoBody]

(* return { ok: false, status: 0, body: { error: '... not configured' } } *)
SecretMissingResult ==
    [ok |-> FALSE, status |-> 0, body |-> [tag |-> "secret_not_configured", val |-> 0]]

(* forwardToN8n (services/eventRouter): returns a result, never throws *)
N8nResults ==
    {[ok |-> TRUE, status |-> 200, body |-> [tag |-> "data", val |-> 1]],
     [ok |-> FALSE, status |-> 500, body |-> [tag |-> "errdata", val |-> 2]],
     [ok |-> FALSE, status |-> 0, body |-> [tag |-> "error", val |-> NoStatus]]}

----------------------------------------------------------------------------
(* webhookEventLogger.ts *)

(* ensureCollection: a failing createIndex is caught and logged *)
ensureCollection(createIndexOk) == "returns"

(* variant: the two status values exchanged *)
logFailureEvent_swapped(eventId, errorCode, errorMessage, retryCount, correlationId, responseStatus, t) ==
    [event_id |-> eventId,
     status |-> IF retryCount > 5 THEN "processing" ELSE "failed",
     error_code |-> errorCode,
     error_message |-> errorMessage,
     last_error |-> errorMessage,
     retry_count |-> retryCount,
     response_status |-> responseStatus,
     correlation_id |-> correlationId,
     timestamp |-> t]

(* the document logFailure hands to log; a key whose value is undefined is  *)
(* <<>>, "" or NoStatus                                                     *)
logFailureEvent(eventId, errorCode, errorMessage, retryCount, correlationId, responseStatus, t) ==
    [event_id |-> eventId,
     status |-> IF retryCount > 5 THEN "failed" ELSE "processing",
     error_code |-> errorCode,
     error_message |-> errorMessage,
     last_error |-> errorMessage,
     retry_count |-> retryCount,
     response_status |-> responseStatus,
     correlation_id |-> correlationId,
     timestamp |-> t]

(* the document logSuccess hands to log: it has no error_* keys *)
logSuccessEvent(eventId, correlationId, responseStatus, t) ==
    [event_id |-> eventId,
     status |-> "success",
     retry_count |-> 0,
     response_status |-> responseStatus,
     correlation_id |-> correlationId,
     timestamp |-> t]

(* findOne({event_id}): the first document with that id, if any *)
Doc(coll, eventId) == IF coll[eventId] = <<>> THEN NoRecord ELSE coll[eventId][1]

(* {$set: event}: the keys of event replace the document's, every other key *)
(* of the document stays                                                    *)
SetFields(doc, event) ==
    [k \in DOMAIN doc |-> IF k \in DOMAIN event THEN event[k] ELSE doc[k]]

(* variant: insertOne(event) *)
updateOne_insert(coll, eventId, event) ==
    [coll EXCEPT ![event.event_id] = Append(@, SetFields(NoRecord, event))]

(* updateOne({event_id}, {$set: event}, {upsert: true}): the first document *)
(* matching the filter is updated; without a match one is inserted          *)
updateOne(coll, eventId, event) ==
    IF coll[eventId] # <<>>
    THEN [coll EXCEPT ![eventId] = <<SetFields(@[1], event)>> \o Tail(@)]
    ELSE [coll EXCEPT ![event.event_id] = Append(@, SetFields(NoRecord, event))]

(* log: a failing updateOne is caught and logged, the collection unchanged *)
log(coll, event, updateOk) ==
    IF updateOk THEN updateOne(coll, event.event_id, event) ELSE coll

----------------------------------------------------------------------------
(* The middleware chain in front of the controller: SignatureVerifier,     *)
(* structural validation, ReplayGuard                                      *)

Fingerprints == {"fp_1", "fp_2"}

EntryPath == "/webhook/entry"

(* tolerance window of the inbound timestamp, in seconds *)
ToleranceSec == 60

(* result of parsing a string that is not a decimal integer *)
NaN == -1

DigitChars == {"0", "1", "2", "3", "4", "5", "6", "7", "8", "9"}

DigitValue(c) == CHOOSE d \in 0..9 : Digit(d) = c

RECURSIVE ParseDigits(_)
ParseDigits(cs) ==
    IF cs = <<>> THEN 0
    ELSE 10 * ParseDigits(SubSeq(cs, 1, Len(cs) - 1)) + DigitValue(cs[Len(cs)])

(* the timestamp header parsed as an integer *)
ParseInt(cs) ==
    IF cs # <<>> /\ \A i \in 1..Len(cs) : cs[i] \in DigitChars
    THEN ParseDigits(cs) ELSE NaN

(* the raw bytes of the inbound body *)
RawBody(x) ==
    IF x.wellFormed THEN JsonStringifyBody(x.body) ELSE <<<<"raw", JsStr("{")>>>>

(* canonical inbound message: path + "\n" + rawBody *)
CanonicalInbound(path, rawBody) == [ts |-> <<path>>, sep |-> "\n", json |-> rawBody]

(* the received signature without its optional sha256= prefix *)
StripPrefix(sig) == IF Len(sig) = 2 /\ sig[1] = "sha256=" THEN <<sig[2]>> ELSE sig

(* variant: the window is one second wider *)
WithinWindow_wider(ts, nowSec) ==
    ts # NaN /\ ts >= nowSec - (ToleranceSec + 1) /\ ts <= nowSec + (ToleranceSec + 1)

(* the timestamp parsed and lies within the tolerance window of now *)
WithinWindow(ts, nowSec) ==
    ts # NaN /\ ts >= nowSec - ToleranceSec /\ ts <= nowSec + ToleranceSec

(* SignatureVerifier.verify: Accept or Reject(reason) *)
verify(secret, path, rawBody, receivedSignature, receivedTimestamp, t) ==
    IF receivedSignature = <<>> THEN "missing_signature"
    ELSE IF receivedTimestamp = <<>> THEN "missing_timestamp"
    ELSE IF StripPrefix(receivedSignature) #
               <<HmacSha256Hex(secret, CanonicalInbound(path, rawBody))>>
    THEN "invalid_signature"
    ELSE IF ~WithinWindow(ParseInt(receivedTimestamp), t \div 1000)
    THEN "timestamp_out_of_window"
    ELSE "Accept"

(* structural validation of the body *)
validatePayload(x) == x.wellFormed

(* variant: no uniqueness constraint, every insert succeeds *)
checkAndRecord_noUnique(guard, fingerprint) ==
    [guard |-> [guard EXCEPT ![fingerprint] = @ + 1], decision |-> "Fresh"]

(* ReplayGuard.checkAndRecord: one insert-if-absent against the uniqueness  *)
(* constraint on the fingerprint; its success or failure is the decision    *)
checkAndRecord(guard, fingerprint) ==
    IF guard[fingerprint] = 0
    THEN [guard |-> [guard EXCEPT ![fingerprint] = 1], decision |-> "Fresh"]
    ELSE [guard |-> guard, decision |-> "Duplicate"]

(* response to a request the chain stops; no internal event id is issued *)
Reject(code, reason) == [code |-> code, status |-> reason, internal_event_id |-> ""]

(* if (alreadySeen(payload)) return 409 *)
DuplicateResponse == Reject(409, "duplicate")

(* an inbound request: headers, body, and the fingerprint the body carries *)
InboundRequest(sig, ts, wellFormed, body, fingerprint) ==
    [xSignature |-> sig, xTimestamp |-> ts, wellFormed |-> wellFormed,
     body |-> body, fingerprint |-> fingerprint]

NoInbound ==
    InboundRequest(<<>>, <<>>, FALSE,
                   [type |-> JsUndefined, id |-> JsUndefined, data |-> JsUndefined], "")

----------------------------------------------------------------------------
(* webhookController.ts *)

(* the X-Signature and X-Timestamp headers of an inbound request that the   *)
(* signature middleware accepted: the digest under the inbound secret of    *)
(* path + "\n" + rawBody, and the sender's clock in seconds                 *)
InboundHeaders(secret, body, t) ==
    [xSignature |-> HmacSha256Hex(secret, [ts |-> <<"/webhook/entry">>, sep |-> "\n",
                                           json |-> JsonStringifyBody(body)]),
     xTimestamp |-> NumberToString(t \div 1000)]

Destination(cfg) == IF cfg.FORWARD_TO_MICRO_BACKEND_ONLY THEN "micro-backend" ELSE "n8n"

(* `forward_failed_${result.status || 'unknown'}` *)
ErrorCode(status) ==
    <<"forward_failed_">> \o
    (IF status = 0 \/ status = NoStatus THEN <<"unknown">> ELSE NumberToString(status))

(* `${destination} forward failed: status=${result.status}` *)
ErrorMsg(cfg, status) ==
    <<Destination(cfg), " forward failed: status=">> \o NumberToString(status)

(* variant: logSuccess whatever the result *)
RecordCall_success(e, r, res, cfg, t) ==
    [op |-> "logSuccess", event |-> logSuccessEvent(e, r.correlationId, 200, t)]

(* if (!result.ok) logFailure(...) else logSuccess(...): the logger method  *)
(* handleWebhookEntry calls and the document that method builds             *)
RecordCall(e, r, res, cfg, t) ==
    IF ~res.ok
    THEN [op |-> "logFailure",
          event |-> logFailureEvent(e, ErrorCode(res.status), ErrorMsg(cfg, res.status),
                                    0, r.correlationId, res.status, t)]
    ELSE [op |-> "logSuccess", event |-> logSuccessEvent(e, r.correlationId, 200, t)]

(* logFailure(internalEventId, 'handler_error', msg, 0, correlationId) *)
CatchCall(e, r, t) ==
    [op |-> "logFailure",
     event |-> logFailureEvent(e, <<"handler_error">>, <<"error">>, 0,
                               r.correlationId, NoStatus, t)]

----------------------------------------------------------------------------
EnvValues ==
    [MICRO_BACKEND_URL : UrlValues,
     MICRO_BACKEND_HMAC_SECRET : SecretValues,
     MICRO_BACKEND_JWT : JwtValues,
     MICRO_BACKEND_DEVICE_ID : {"webhook-gateway"},
     FORWARD_TO_MICRO_BACKEND_ONLY : BOOLEAN,
     MONGO_URI : MongoUriValues,
     HMAC_SECRET : InboundSecretValues,
     SERVICE_ROLE : ServiceRoles]

(* one request, every behaviour of the destination *)
SoloWorld ==
    [events |-> {"evt_1"}, outcomes |-> HttpOutcomes, jitters |-> JitterValues,
     payloads |-> Payloads, inbound |-> {}]

(* two overlapping requests against a destination that answers 201, 400 or 500 *)
ConcWorld ==
    [events |-> Events,
     outcomes |-> {o \in HttpOutcomes : o.status \in {201, 400, 500}},
     jitters |-> {250},
     payloads |-> {p \in Payloads : Truthy(p.type)},
     inbound |-> {}]

----------------------------------------------------------------------------
(* accessGuard.ts: isRetryableError *)

JsNull == [t |-> "null", s |-> "", n |-> 0]

(* largest HTTP status handed to isRetryableError *)
MaxStatus == 600

(* the arguments of isRetryableError: null, undefined and the numbers from  *)
(* -1 to MaxStatus                                                          *)
StatusInputs == {JsNull, JsUndefined} \cup {JsNum(n) : n \in -1..MaxStatus}

(* variant: only 5xx, 429 and a missing status are retryable *)
isRetryableError_no408(status) ==
    IF status = JsNull \/ status = JsUndefined THEN TRUE
    ELSE IF status.n >= 500 THEN TRUE
    ELSE IF status.n = 429 THEN TRUE
    ELSE FALSE

isRetryableError(status) ==
    IF status = JsNull \/ status = JsUndefined THEN TRUE
    ELSE IF status.n >= 500 THEN TRUE
    ELSE IF status.n = 429 THEN TRUE
    ELSE IF status.n = 408 THEN TRUE
    ELSE IF status.n >= 400 /\ status.n < 500 THEN FALSE
    ELSE IF status.n >= 200 /\ status.n < 300 THEN FALSE
    ELSE FALSE

----------------------------------------------------------------------------
(* workers/index.ts: the signals that start a shutdown *)

Signals == {"SIGTERM", "SIGINT"}

(* the worker process before any signal: no shutdown under way, no client   *)
(* closed, no TypeError thrown by getDb, process running                    *)
NoShutdown ==
    [pc |-> [s \in Signals |-> "idle"],
     target |-> [s \in Signals |-> 0],
     log |-> [s \in Signals |-> <<>>],
     closing |-> {},
     closed |-> {},
     typeError |-> FALSE,
     exited |-> FALSE]

(* no call of isRetryableError has been made *)
NoRetryCall == [status |-> JsUndefined, called |-> FALSE, result |-> FALSE]

----------------------------------------------------------------------------
(* the state after module load, before any request *)
InitState ==
    /\ client = 0
    /\ db = 0
    /\ nClients = 0
    /\ pc = [e \in Events |-> "idle"]
    /\ inCatch = [e \in Events |-> FALSE]
    /\ req = [e \in Events |-> NoReq]
    /\ fwd = [e \in Events |-> "NotStarted"]
    /\ attempt = [e \in Events |-> 0]
    /\ request = [e \in Events |-> NoRequest]
    /\ sent = [e \in Events |-> <<>>]
    /\ waits = [e \in Events |-> <<>>]
    /\ deadline = [e \in Events |-> 0]
    /\ outcomes = [e \in Events |-> <<>>]
    /\ result = [e \in Events |-> NoResult]
    /\ dest = [e \in Events |-> "none"]
    /\ store = [e \in Events |-> <<>>]
    /\ writes = [e \in Events |-> <<>>]
    /\ inflight = <<>>
    /\ inbound = [e \in Events |-> NoInbound]
    /\ replays = [f \in Fingerprints |-> 0]
    /\ response = [e \in Events |-> NoResponse]

Init ==
    /\ world = SoloWorld
    /\ edge = [e \in Events |-> "passed"]
    /\ env \in {c \in EnvValues : c.SERVICE_ROLE = "webhook-edge"}
    /\ now \in StartTimes
    /\ retry = NoRetryCall
    /\ shut = NoShutdown
    /\ InitState

InitConc ==
    /\ world = ConcWorld
    /\ edge = [e \in Events |-> "passed"]
    /\ env \in {c \in EnvValues : /\ c.MICRO_BACKEND_URL # ""
                                  /\ c.MICRO_BACKEND_HMAC_SECRET # ""
                                  /\ c.MICRO_BACKEND_JWT # ""
                                  /\ c.MONGO_URI # ""
                                  /\ c.SERVICE_ROLE = "webhook-edge"}
    /\ now = 60000
    /\ retry = NoRetryCall
    /\ shut = NoShutdown
    /\ InitState

----------------------------------------------------------------------------
(* handleWebhookEntry: control flow *)

(* variant: an exception inside the catch block leaves the handler *)
Throw_escapes(e) ==
    IF inCatch[e]
    THEN /\ pc' = [pc EXCEPT ![e] = "done"]
         /\ UNCHANGED inCatch
    ELSE /\ pc' = [pc EXCEPT ![e] = "getDb"]
         /\ inCatch' = [inCatch EXCEPT ![e] = TRUE]

(* an exception inside the try block enters the catch block, which calls    *)
(* getDb again; an exception inside the catch block's own try is swallowed  *)
Throw(e) ==
    IF inCatch[e]
    THEN /\ pc' = [pc EXCEPT ![e] = "respond500"]
         /\ UNCHANGED inCatch
    ELSE /\ pc' = [pc EXCEPT ![e] = "getDb"]
         /\ inCatch' = [inCatch EXCEPT ![e] = TRUE]

(* getDb returned a handle *)
GetDbReturn(e) ==
    /\ pc' = [pc EXCEPT ![e] = IF inCatch[e] THEN "catchLog" ELSE "ensureCollection"]
    /\ UNCHANGED inCatch

(* variant: a request is taken up only while no other one is being forwarded *)
Receive_serial(e) ==
    /\ pc[e] = "idle"
    /\ edge[e] = "passed"
    /\ e \in world.events
    /\ \A o \in Events \ {e} : pc[o] # "forwarding"
    /\ \E c \in CorrelationIds, p \in world.payloads :
          /\ inbound[e] # NoInbound => p = inbound[e].body
          /\ req' = [req EXCEPT ![e] =
                        [correlationId |-> c, normalizedPayload |-> p,
                         headers |-> InboundHeaders(env.HMAC_SECRET, p, now)]]
    /\ pc' = [pc EXCEPT ![e] = "getDb"]
    /\ UNCHANGED <<edgeVars, world, retry, shut, env, now, mongoVars, inCatch, fwdVars, logVars, response>>

(* the request has passed the middleware chain and reaches the controller *)
Receive(e) ==
    /\ pc[e] = "idle"
    /\ edge[e] = "passed"
    /\ e \in world.events
    /\ \E c \in CorrelationIds, p \in world.payloads :
          /\ inbound[e] # NoInbound => p = inbound[e].body
          /\ req' = [req EXCEPT ![e] =
                        [correlationId |-> c, normalizedPayload |-> p,
                         headers |-> InboundHeaders(env.HMAC_SECRET, p, now)]]
    /\ pc' = [pc EXCEPT ![e] = "getDb"]
    /\ UNCHANGED <<edgeVars, world, retry, shut, env, now, mongoVars, inCatch, fwdVars, logVars, response>>

(* getDb up to its first await; the test of env.SERVICE_ROLE at its top     *)
(* only writes a warning to the log and goes on, whatever the role; nothing *)
(* runs in a process that has exited                                        *)
GetDbEnter(e) ==
    /\ pc[e] = "getDb"
    /\ ~shut.exited
    /\ IF db # 0
       THEN GetDbReturn(e) /\ UNCHANGED mongoVars
       ELSE IF env.MONGO_URI = ""
       THEN Throw(e) /\ UNCHANGED mongoVars
       ELSE /\ nClients' = nClients + 1
            /\ client' = nClients + 1
            /\ pc' = [pc EXCEPT ![e] = "connecting"]
            /\ UNCHANGED <<db, inCatch>>
    /\ UNCHANGED <<edgeVars, world, retry, shut, env, now, req, fwdVars, logVars, response>>

(* client.connect() settles; on success db = client.db(), which reads the   *)
(* module variable client again: if closeDb has set it to null meanwhile,   *)
(* the call throws a TypeError                                              *)
GetDbConnected(e) ==
    /\ pc[e] = "connecting"
    /\ ~shut.exited
    /\ \E connectOk \in BOOLEAN :
          IF connectOk /\ client # 0
          THEN /\ db' = client
               /\ pc' = [pc EXCEPT ![e] = "indexing"]
               /\ UNCHANGED <<inCatch, shut>>
          ELSE /\ Throw(e)
               /\ shut' = [shut EXCEPT !.typeError = @ \/ connectOk]
               /\ UNCHANGED db
    /\ UNCHANGED <<edgeVars, world, retry, env, now, client, nClients, req, fwdVars, logVars, response>>

(* ensureIndexes(db) settles *)
GetDbIndexed(e) ==
    /\ pc[e] = "indexing"
    /\ ~shut.exited
    /\ \E indexesOk \in BOOLEAN :
          IF indexesOk THEN GetDbReturn(e) ELSE Throw(e)
    /\ UNCHANGED <<edgeVars, world, retry, shut, env, now, mongoVars, req, fwdVars, logVars, response>>

(* eventLogger.ensureCollection() settles *)
EnsureCollection(e) ==
    /\ pc[e] = "ensureCollection"
    /\ \E createIndexOk \in BOOLEAN :
          IF ensureCollection(createIndexOk) = "returns"
          THEN pc' = [pc EXCEPT ![e] = "forward"] /\ UNCHANGED inCatch
          ELSE Throw(e)
    /\ UNCHANGED <<edgeVars, world, retry, shut, env, now, mongoVars, req, fwdVars, logVars, response>>

----------------------------------------------------------------------------
(* forwardToDestination, forwardToMicroBackend, forwardWithRetry *)

(* forwardToMicroBackend up to its first await: the configuration checks,   *)
(* adapt, sign, build the headers, enter the loop and issue the first call  *)
ForwardToMicroBackend(e) ==
    /\ pc[e] = "forward"
    /\ env.FORWARD_TO_MICRO_BACKEND_ONLY
    /\ dest' = [dest EXCEPT ![e] = "micro-backend"]
    /\ IF ConfigCheck(env) = "skip"
       THEN /\ result' = [result EXCEPT ![e] = SkipResult]
            /\ pc' = [pc EXCEPT ![e] = "record"]
            /\ UNCHANGED <<fwd, attempt, request, sent>>
       ELSE IF ConfigCheck(env) = "secretMissing"
       THEN /\ result' = [result EXCEPT ![e] = SecretMissingResult]
            /\ pc' = [pc EXCEPT ![e] = "record"]
            /\ UNCHANGED <<fwd, attempt, request, sent>>
       ELSE LET r == BuildRequest(e, req[e], env, now) IN
            /\ request' = [request EXCEPT ![e] = r]
            /\ attempt' = [attempt EXCEPT ![e] = 1]
            /\ IF LoopTest(1, MAX_MICRO_BACKEND_RETRIES)
               THEN /\ fwd' = [fwd EXCEPT ![e] = "Attempting"]
                    /\ sent' = [sent EXCEPT ![e] =
                                  <<Post(AttemptRequest(r, e, req[e], env, now), 1, now)>>]
                    /\ pc' = [pc EXCEPT ![e] = "forwarding"]
                    /\ UNCHANGED result
               ELSE /\ fwd' = [fwd EXCEPT ![e] = "FailedExhausted"]
                    /\ result' = [result EXCEPT ![e] = OnExhausted(LastError(<<>>))]
                    /\ pc' = [pc EXCEPT ![e] = "record"]
                    /\ UNCHANGED sent
    /\ UNCHANGED <<edgeVars, world, retry, shut, env, now, mongoVars, inCatch, req, waits, deadline,
                   outcomes, logVars, response>>

(* variant: parallel forwarding, the legacy forwarder is also called after   *)
(* the micro-backend forwarder has returned                                 *)
ForwardToN8n_fanOut(e) ==
    /\ \/ pc[e] = "forward" /\ ~env.FORWARD_TO_MICRO_BACKEND_ONLY
       \/ pc[e] = "record" /\ dest[e] = "micro-backend"
    /\ dest' = [dest EXCEPT ![e] = "n8n"]
    /\ \E r \in N8nResults : result' = [result EXCEPT ![e] = r]
    /\ pc' = [pc EXCEPT ![e] = "record"]
    /\ UNCHANGED <<edgeVars, world, retry, shut, env, now, mongoVars, inCatch, req, fwd, attempt, request,
                   sent, waits, deadline, outcomes, logVars, response>>

(* forwardToDestination with the flag off: the legacy forwarder *)
ForwardToN8n(e) ==
    /\ pc[e] = "forward"
    /\ ~env.FORWARD_TO_MICRO_BACKEND_ONLY
    /\ dest' = [dest EXCEPT ![e] = "n8n"]
    /\ \E r \in N8nResults : result' = [result EXCEPT ![e] = r]
    /\ pc' = [pc EXCEPT ![e] = "record"]
    /\ UNCHANGED <<edgeVars, world, retry, shut, env, now, mongoVars, inCatch, req, fwd, attempt, request,
                   sent, waits, deadline, outcomes, logVars, response>>

(* the pending http.post settles and the loop body runs to its next await   *)
(* or to the return                                                         *)
HttpSettle(e) ==
    /\ pc[e] = "forwarding"
    /\ fwd[e] = "Attempting"
    /\ \E o \in world.outcomes :
          LET step == AttemptStep(o, attempt[e], MAX_MICRO_BACKEND_RETRIES) IN
          /\ outcomes' = [outcomes EXCEPT ![e] = Append(@, o)]
          /\ fwd' = [fwd EXCEPT ![e] = step.state]
          /\ CASE step.do = "return" ->
                    /\ result' = [result EXCEPT ![e] = step.result]
                    /\ pc' = [pc EXCEPT ![e] = "record"]
                    /\ UNCHANGED <<attempt, sent, waits, deadline, inCatch>>
               [] step.do = "wait" ->
                    \E j \in world.jitters :
                       LET delay == BackoffDelay(attempt[e], j) IN
                       /\ waits' = [waits EXCEPT ![e] = Append(@, delay)]
                       /\ deadline' = [deadline EXCEPT ![e] = now + delay]
                       /\ UNCHANGED <<attempt, sent, result, pc, inCatch>>
               [] step.do = "post" ->
                    /\ attempt' = [attempt EXCEPT ![e] = @ + 1]
                    /\ sent' = [sent EXCEPT ![e] =
                                  Append(@, Post(AttemptRequest(request[e], e, req[e], env, now),
                                                 attempt[e] + 1, now))]
                    /\ UNCHANGED <<result, waits, deadline, pc, inCatch>>
               [] OTHER ->
                    /\ Throw(e)
                    /\ UNCHANGED <<attempt, sent, result, waits, deadline>>
    /\ UNCHANGED <<edgeVars, world, retry, shut, env, now, mongoVars, req, request, dest, logVars, response>>

(* variant: the next attempt does not await the pending call *)
BackoffElapsed_parallel(e) ==
    /\ pc[e] = "forwarding"
    /\ fwd[e] \in {"Waiting", "Attempting"}
    /\ now' = Max(now, deadline[e])
    /\ attempt' = [attempt EXCEPT ![e] = @ + 1]
    /\ IF LoopTest(attempt[e] + 1, MAX_MICRO_BACKEND_RETRIES)
       THEN /\ fwd' = [fwd EXCEPT ![e] = "Attempting"]
            /\ sent' = [sent EXCEPT ![e] =
                          Append(@, Post(AttemptRequest(request[e], e, req[e], env, now'),
                                         attempt[e] + 1, now'))]
            /\ UNCHANGED <<result, pc>>
       ELSE /\ fwd' = [fwd EXCEPT ![e] = "FailedExhausted"]
            /\ result' = [result EXCEPT ![e] = OnExhausted(LastError(outcomes[e]))]
            /\ pc' = [pc EXCEPT ![e] = "record"]
            /\ UNCHANGED sent
    /\ UNCHANGED <<edgeVars, world, retry, shut, env, mongoVars, inCatch, req, request, waits, deadline,
                   outcomes, dest, logVars, response>>

(* variant: the loop variable is not incremented *)
BackoffElapsed_noIncrement(e) ==
    /\ pc[e] = "forwarding"
    /\ fwd[e] = "Waiting"
    /\ now' = Max(now, deadline[e])
    /\ fwd' = [fwd EXCEPT ![e] = "Attempting"]
    /\ sent' = [sent EXCEPT ![e] =
                  Append(@, Post(AttemptRequest(request[e], e, req[e], env, now'),
                                 attempt[e], now'))]
    /\ UNCHANGED <<edgeVars, world, retry, shut, env, mongoVars, inCatch, req, request, waits, deadline,
                   outcomes, dest, logVars, response, attempt, result, pc>>

(* the backoff timer fires: attempt++, the loop test, the next http.post *)
BackoffElapsed(e) ==
    /\ pc[e] = "forwarding"
    /\ fwd[e] = "Waiting"
    /\ now' = Max(now, deadline[e])
    /\ attempt' = [attempt EXCEPT ![e] = @ + 1]
    /\ IF LoopTest(attempt[e] + 1, MAX_MICRO_BACKEND_RETRIES)
       THEN /\ fwd' = [fwd EXCEPT ![e] = "Attempting"]
            /\ sent' = [sent EXCEPT ![e] =
                          Append(@, Post(AttemptRequest(request[e], e, req[e], env, now'),
                                         attempt[e] + 1, now'))]
            /\ UNCHANGED <<result, pc>>
       ELSE /\ fwd' = [fwd EXCEPT ![e] = "FailedExhausted"]
            /\ result' = [result EXCEPT ![e] = OnExhausted(LastError(outcomes[e]))]
            /\ pc' = [pc EXCEPT ![e] = "record"]
            /\ UNCHANGED sent
    /\ UNCHANGED <<edgeVars, world, retry, shut, env, mongoVars, inCatch, req, request, waits, deadline,
                   outcomes, dest, logVars, response>>

----------------
(* handleWebhookEntry: outcome write and response *)

(* logFailure or logSuccess according to result.ok; the upsert settles *)
Record(e) ==
    /\ pc[e] = "record"
    /\ \E updateOk \in BOOLEAN :
          LET call == RecordCall(e, req[e], result[e], env, now) IN
          /\ store' = log(store, call.event, updateOk)
          /\ writes' = [writes EXCEPT ![e] =
                           Append(@, [op |-> call.op, event |-> call.event,
                                      applied |-> updateOk])]
          /\ UNCHANGED inflight
    /\ pc' = [pc EXCEPT ![e] = "respond"]
    /\ UNCHANGED <<edgeVars, world, retry, shut, env, now, mongoVars, inCatch, req, fwdVars, response>>

(* variant: the 202 is sent while forwarding is still under way *)
Respond_early(e) ==
    /\ pc[e] \in {"forwarding", "respond"}
    /\ response[e] = NoResponse \/ pc[e] = "respond"
    /\ response' = [response EXCEPT ![e] =
                       [code |-> 202, status |-> "accepted", internal_event_id |-> e]]
    /\ pc' = [pc EXCEPT ![e] = IF pc[e] = "respond" THEN "done" ELSE @]
    /\ UNCHANGED <<edgeVars, world, retry, shut, env, now, mongoVars, inCatch, req, fwdVars, logVars>>

(* res.status(202).json(...) *)
Respond(e) ==
    /\ pc[e] = "respond"
    /\ response' = [response EXCEPT ![e] =
                       [code |-> 202, status |-> "accepted", internal_event_id |-> e]]
    /\ pc' = [pc EXCEPT ![e] = "done"]
    /\ UNCHANGED <<edgeVars, world, retry, shut, env, now, mongoVars, inCatch, req, fwdVars, logVars>>

(* catch block: logFailure(..., 'handler_error', ...) settles *)
CatchLog(e) ==
    /\ pc[e] = "catchLog"
    /\ \E updateOk \in BOOLEAN :
          LET call == CatchCall(e, req[e], now) IN
          /\ store' = log(store, call.event, updateOk)
          /\ writes' = [writes EXCEPT ![e] =
                           Append(@, [op |-> call.op, event |-> call.event,
                                      applied |-> updateOk])]
          /\ UNCHANGED inflight
    /\ pc' = [pc EXCEPT ![e] = "respond500"]
    /\ UNCHANGED <<edgeVars, world, retry, shut, env, now, mongoVars, inCatch, req, fwdVars, response>>

(* catch block: res.status(500).json(...) *)
Respond500(e) ==
    /\ pc[e] = "respond500"
    /\ response' = [response EXCEPT ![e] =
                       [code |-> 500, status |-> "error", internal_event_id |-> e]]
    /\ pc' = [pc EXCEPT ![e] = "done"]
    /\ UNCHANGED <<edgeVars, world, retry, shut, env, now, mongoVars, inCatch, req, fwdVars, logVars>>

----------------------------------------------------------------------------
Next ==
    \E e \in Events :
       \/ Receive(e)
       \/ GetDbEnter(e)
       \/ GetDbConnected(e)
       \/ GetDbIndexed(e)
       \/ EnsureCollection(e)
       \/ ForwardToMicroBackend(e)
       \/ ForwardToN8n(e)
       \/ HttpSettle(e)
       \/ BackoffElapsed(e)
       \/ Record(e)
       \/ Respond(e)
       \/ CatchLog(e)
       \/ Respond500(e)

Spec == Init /\ [][Next]_vars

SpecConc == InitConc /\ [][Next]_vars

(* one request to a configured gateway, run under either service role *)
InitRole ==
    /\ world = SoloWorld
    /\ edge = [e \in Events |-> "passed"]
    /\ env \in {c \in EnvValues : /\ c.MICRO_BACKEND_URL # ""
                                  /\ c.MICRO_BACKEND_HMAC_SECRET # ""
                                  /\ c.MICRO_BACKEND_JWT # ""
                                  /\ c.MONGO_URI # ""}
    /\ now = 60000
    /\ retry = NoRetryCall
    /\ shut = NoShutdown
    /\ InitState

SpecRole == InitRole /\ [][Next]_vars

----------------------------------------------------------------------------
(* workers/index.ts shutdown and mongo.ts closeDb, in a worker process      *)
(* whose jobs call getDb                                                    *)

ShutdownEnv ==
    CHOOSE c \in EnvValues : /\ c.MICRO_BACKEND_URL # ""
                             /\ c.MICRO_BACKEND_HMAC_SECRET # ""
                             /\ c.MICRO_BACKEND_JWT # ""
                             /\ c.FORWARD_TO_MICRO_BACKEND_ONLY
                             /\ c.MONGO_URI # ""
                             /\ c.SERVICE_ROLE = "worker"

InitShutdown ==
    /\ world = [events |-> Events, outcomes |-> {}, jitters |-> {}, payloads |-> {},
                 inbound |-> {}]
    /\ edge = [e \in Events |-> "passed"]
    /\ env = ShutdownEnv
    /\ now = 60000
    /\ retry = NoRetryCall
    /\ shut = NoShutdown
    /\ InitState

(* a job of the worker process calls getDb; a caller whose call threw calls  *)
(* once more, as the catch block of handleWebhookEntry does                 *)
CallGetDb(e) ==
    /\ pc[e] = "idle"
    /\ ~shut.exited
    /\ e \in world.events
    /\ pc' = [pc EXCEPT ![e] = "getDb"]
    /\ UNCHANGED <<edgeVars, world, retry, shut, env, now, mongoVars, inCatch, req, fwdVars,
                   logVars, response>>

(* a step of shutdown that has settled: resolved (ok) or rejected *)
Settled(step, ok) == [step |-> step, ok |-> ok]

(* closeDb up to its first await: with a client, client.close() is pending; *)
(* without one closeDb returns at once                                      *)
closeDb(sh, s, c) ==
    IF c # 0
    THEN [sh EXCEPT !.pc[s] = "closing", !.target[s] = c, !.closing = @ \cup {c}]
    ELSE [sh EXCEPT !.pc[s] = "exit", !.log[s] = Append(@, Settled("closeDb", TRUE))]

(* variant: one try block around both steps, so that an error of            *)
(* stopWorkers skips closeDb                                                *)
AfterStopWorkers_oneTry(sh, s, c, stopOk) ==
    IF stopOk
    THEN closeDb([sh EXCEPT !.log[s] = Append(@, Settled("stopWorkers", stopOk))], s, c)
    ELSE [sh EXCEPT !.pc[s] = "exit", !.log[s] = Append(@, Settled("stopWorkers", stopOk))]

(* stopWorkers has settled, resolved or rejected: the rejection is caught   *)
(* and logged, and closeDb is called in either case                         *)
AfterStopWorkers(sh, s, c, stopOk) ==
    closeDb([sh EXCEPT !.log[s] = Append(@, Settled("stopWorkers", stopOk))], s, c)

(* process.on(signal): shutdown(signal) runs up to await stopWorkers() *)
Signal(s) ==
    /\ shut.pc[s] = "idle"
    /\ ~shut.exited
    /\ shut' = [shut EXCEPT !.pc[s] = "stopWorkers"]
    /\ UNCHANGED <<edgeVars, world, retry, env, now, mongoVars, pc, inCatch, req, fwdVars,
                   logVars, response>>

(* stopWorkers() settles; shutdown goes on to await closeDb() *)
StopWorkersSettle(s) ==
    /\ shut.pc[s] = "stopWorkers"
    /\ ~shut.exited
    /\ \E stopOk \in BOOLEAN : shut' = AfterStopWorkers(shut, s, client, stopOk)
    /\ UNCHANGED <<edgeVars, world, retry, env, now, mongoVars, pc, inCatch, req, fwdVars,
                   logVars, response>>

(* client.close() settles: resolved, closeDb sets client and db to null;    *)
(* rejected, closeDb throws, shutdown catches and logs it                   *)
CloseSettle(s) ==
    /\ shut.pc[s] = "closing"
    /\ ~shut.exited
    /\ \E closeOk \in BOOLEAN :
          IF closeOk
          THEN /\ client' = 0
               /\ db' = 0
               /\ shut' = [shut EXCEPT !.pc[s] = "exit",
                                       !.log[s] = Append(@, Settled("closeDb", TRUE)),
                                       !.closing = @ \ {shut.target[s]},
                                       !.closed = @ \cup {shut.target[s]}]
          ELSE /\ shut' = [shut EXCEPT !.pc[s] = "exit",
                                       !.log[s] = Append(@, Settled("closeDb", FALSE))]
               /\ UNCHANGED <<client, db>>
    /\ UNCHANGED <<edgeVars, world, retry, env, now, nClients, pc, inCatch, req, fwdVars,
                   logVars, response>>

(* process.exit(0) *)
Exit(s) ==
    /\ shut.pc[s] = "exit"
    /\ ~shut.exited
    /\ shut' = [shut EXCEPT !.pc[s] = "done", !.log[s] = Append(@, Settled("exit", TRUE)),
                            !.exited = TRUE]
    /\ UNCHANGED <<edgeVars, world, retry, env, now, mongoVars, pc, inCatch, req, fwdVars,
                   logVars, response>>

NextShutdown ==
    \/ \E e \in Events :
          CallGetDb(e) \/ GetDbEnter(e) \/ GetDbConnected(e) \/ GetDbIndexed(e)
    \/ \E s \in Signals :
          Signal(s) \/ StopWorkersSettle(s) \/ CloseSettle(s) \/ Exit(s)

(* stopWorkers and client.close() settle, and a continuation that is ready  *)
(* to run does run                                                          *)
SpecShutdown ==
    /\ InitShutdown
    /\ [][NextShutdown]_vars
    /\ \A s \in Signals : /\ WF_vars(StopWorkersSettle(s))
                           /\ WF_vars(CloseSettle(s))
                           /\ WF_vars(Exit(s))

(* one request, where every pending http.post settles and every backoff     *)
(* timer fires                                                              *)
SpecLive ==
    /\ Init
    /\ [][Next]_vars
    /\ \A e \in Events : WF_vars(HttpSettle(e)) /\ WF_vars(BackoffElapsed(e))

----------------------------------------------------------------------------
(* The middleware chain followed by the controller *)

(* the body the requests of these runs carry *)
EdgeBody == CHOOSE p \in Payloads : Truthy(p.type)

SigKinds == {"prefixed", "bare", "wrongSecret", "missing"}

(* an X-Signature header: the digest of the request under the inbound       *)
(* secret with or without the sha256= prefix, a digest under another        *)
(* secret, or no header                                                     *)
SignatureHeader(kind, secret, x) ==
    LET digest(k) == HmacSha256Hex(k, CanonicalInbound(EntryPath, RawBody(x)))
    IN CASE kind = "prefixed" -> <<"sha256=", digest(secret)>>
         [] kind = "bare" -> <<digest(secret)>>
         [] kind = "wrongSecret" -> <<"sha256=", digest("S9")>>
         [] OTHER -> <<>>

InboundSamples(secret, kinds, timestamps, shapes, fps) ==
    {InboundRequest(SignatureHeader(k, secret,
                                    [wellFormed |-> w, body |-> EdgeBody]),
                    ts, w, EdgeBody, f) :
        k \in kinds, ts \in timestamps, w \in shapes, f \in fps}

(* X-Timestamp headers around the edges of the window of a clock at 100 s,  *)
(* headers that are not integers, and no header                             *)
WindowTimestamps ==
    {NumberToString(n) : n \in {39, 40, 100, 160, 161}}
    \cup {<<"1", "x">>, <<"a", "b", "c">>, <<"4", "0", ".", "5">>, <<>>}

(* one request, every signature and timestamp header *)
VerifyWorld ==
    [events |-> {"evt_1"},
     outcomes |-> {o \in HttpOutcomes : o.status \in {201, 500}},
     jitters |-> {250},
     payloads |-> {EdgeBody},
     inbound |-> InboundSamples("S1", SigKinds, WindowTimestamps, BOOLEAN, {"fp_1"})]

(* two requests, accepted or stopped by the chain, with equal or different  *)
(* fingerprints                                                             *)
EdgeWorld ==
    [events |-> Events,
     outcomes |-> {o \in HttpOutcomes : o.status \in {201, 500}},
     jitters |-> {250},
     payloads |-> {EdgeBody},
     inbound |-> InboundSamples("S1", {"prefixed", "wrongSecret", "missing"},
                                {NumberToString(100), NumberToString(161), <<>>},
                                BOOLEAN, Fingerprints)]

EdgeEnvValues ==
    {c \in EnvValues : /\ c.MICRO_BACKEND_URL # ""
                       /\ c.MICRO_BACKEND_HMAC_SECRET # ""
                       /\ c.MICRO_BACKEND_JWT # ""
                       /\ c.MONGO_URI # ""
                       /\ c.SERVICE_ROLE = "webhook-edge"}

(* the clock when the requests of these runs arrive, in ms *)
EdgeStart == 100000

InitEdgeState ==
    /\ edge = [e \in Events |-> "new"]
    /\ env \in EdgeEnvValues
    /\ now = EdgeStart
    /\ retry = NoRetryCall
    /\ shut = NoShutdown
    /\ InitState

InitEdge == world = EdgeWorld /\ InitEdgeState

InitVerify == world = VerifyWorld /\ InitEdgeState

(* variant: the fingerprint is recorded before the body is validated *)
Arrive_recordsFirst(e) ==
    /\ pc[e] = "idle"
    /\ edge[e] = "new"
    /\ e \in world.events
    /\ \E x \in world.inbound :
          LET v == verify(env.HMAC_SECRET, EntryPath, RawBody(x), x.xSignature,
                          x.xTimestamp, now)
          IN /\ inbound' = [inbound EXCEPT ![e] = x]
             /\ IF v # "Accept"
                THEN /\ edge' = [edge EXCEPT ![e] = "rejected"]
                     /\ response' = [response EXCEPT ![e] = Reject(401, v)]
                     /\ UNCHANGED replays
                ELSE IF ~validatePayload(x)
                THEN /\ edge' = [edge EXCEPT ![e] = "rejected"]
                     /\ response' = [response EXCEPT ![e] = Reject(400, "bad_payload")]
                     /\ replays' = checkAndRecord(replays, x.fingerprint).guard
                ELSE /\ edge' = [edge EXCEPT ![e] = "guard"]
                     /\ UNCHANGED <<response, replays>>
    /\ UNCHANGED <<world, retry, shut, env, now, mongoVars, pc, inCatch, req, fwdVars, logVars>>

(* a request arrives: signature.ts and validatePayload.ts run, then the     *)
(* ReplayGuard insert is issued                                             *)
Arrive(e) ==
    /\ pc[e] = "idle"
    /\ edge[e] = "new"
    /\ e \in world.events
    /\ \E x \in world.inbound :
          LET v == verify(env.HMAC_SECRET, EntryPath, RawBody(x), x.xSignature,
                          x.xTimestamp, now)
          IN /\ inbound' = [inbound EXCEPT ![e] = x]
             /\ IF v # "Accept"
                THEN /\ edge' = [edge EXCEPT ![e] = "rejected"]
                     /\ response' = [response EXCEPT ![e] = Reject(401, v)]
                ELSE IF ~validatePayload(x)
                THEN /\ edge' = [edge EXCEPT ![e] = "rejected"]
                     /\ response' = [response EXCEPT ![e] = Reject(400, "bad_payload")]
                ELSE /\ edge' = [edge EXCEPT ![e] = "guard"]
                     /\ UNCHANGED response
    /\ UNCHANGED <<world, retry, shut, env, now, mongoVars, pc, inCatch, req, fwdVars, logVars,
                   replays>>

(* variant: a Duplicate is answered and handed to the controller all the same *)
GuardSettle_forwardsDuplicate(e) ==
    /\ edge[e] = "guard"
    /\ LET r == checkAndRecord(replays, inbound[e].fingerprint) IN
       /\ replays' = r.guard
       /\ edge' = [edge EXCEPT ![e] = "passed"]
       /\ IF r.decision = "Fresh"
          THEN UNCHANGED response
          ELSE response' = [response EXCEPT ![e] = DuplicateResponse]
    /\ UNCHANGED <<world, retry, shut, env, now, mongoVars, pc, inCatch, req, fwdVars, logVars,
                   inbound>>

(* the ReplayGuard insert settles: Fresh goes on to the controller,         *)
(* Duplicate is answered and stops                                          *)
GuardSettle(e) ==
    /\ edge[e] = "guard"
    /\ LET r == checkAndRecord(replays, inbound[e].fingerprint) IN
       /\ replays' = r.guard
       /\ IF r.decision = "Fresh"
          THEN /\ edge' = [edge EXCEPT ![e] = "passed"]
               /\ UNCHANGED response
          ELSE /\ edge' = [edge EXCEPT ![e] = "duplicate"]
               /\ response' = [response EXCEPT ![e] = DuplicateResponse]
    /\ UNCHANGED <<world, retry, shut, env, now, mongoVars, pc, inCatch, req, fwdVars, logVars,
                   inbound>>

NextEdge ==
    \/ \E e \in Events : Arrive(e) \/ GuardSettle(e)
    \/ Next

SpecEdge == InitEdge /\ [][NextEdge]_vars

SpecVerify == InitVerify /\ [][NextEdge]_vars

----------------------------------------------------------------------------
(* WebhookEventLogger under arbitrary callers: any sequence of logSuccess,  *)
(* logFailure and log calls, overlapping at their await of updateOne        *)

(* calls made in one run of the logger *)
MaxCalls == 3

LogRetryCounts == {0, 6}

(* a document a caller hands to log directly *)
ReceivedEvent(eventId, t) ==
    [event_id |-> eventId, status |-> "received", retry_count |-> 0, timestamp |-> t]

LogEnv == CHOOSE c \in EnvValues : /\ c.MICRO_BACKEND_URL # ""
                                   /\ c.MICRO_BACKEND_HMAC_SECRET # ""
                                   /\ c.MICRO_BACKEND_JWT # ""
                                   /\ c.FORWARD_TO_MICRO_BACKEND_ONLY
                                   /\ c.MONGO_URI # ""
                                   /\ c.SERVICE_ROLE = "webhook-edge"

InitLog ==
    /\ world = [events |-> {}, outcomes |-> {}, jitters |-> {}, payloads |-> {},
                 inbound |-> {}]
    /\ edge = [e \in Events |-> "passed"]
    /\ env = LogEnv
    /\ now = 60000
    /\ retry = NoRetryCall
    /\ shut = NoShutdown
    /\ InitState

CallsMade == Len(inflight) + Len(writes["evt_1"]) + Len(writes["evt_2"])

(* a call up to its await of collection.updateOne; the next call is made   *)
(* a millisecond later                                                      *)
Enter(call) ==
    /\ CallsMade < MaxCalls
    /\ inflight' = Append(inflight, call)
    /\ now' = now + 1
    /\ UNCHANGED <<edgeVars, world, retry, shut, env, mongoVars, pc, inCatch, req, fwdVars, store,
                   writes, response>>

(* logSuccess(eventId, correlationId): responseStatus defaults to 200 *)
LogSuccessCall(id) ==
    Enter([op |-> "logSuccess", event |-> logSuccessEvent(id, "corr_1", 200, now)])

(* logFailure(eventId, errorCode, errorMessage, retryCount, correlationId,  *)
(* responseStatus)                                                          *)
LogFailureCall(id) ==
    \E n \in LogRetryCounts :
       Enter([op |-> "logFailure",
              event |-> logFailureEvent(id, ErrorCode(500), ErrorMsg(env, 500), n,
                                        "corr_1", 500, now)])

(* log(event) *)
LogCall(id) == Enter([op |-> "log", event |-> ReceivedEvent(id, now)])

(* a pending updateOne settles: applied, or rejected and caught by log *)
UpdateSettle(i) ==
    /\ i \in 1..Len(inflight)
    /\ \E updateOk \in BOOLEAN :
          LET call == inflight[i] IN
          /\ store' = log(store, call.event, updateOk)
          /\ writes' = [writes EXCEPT ![call.event.event_id] =
                           Append(@, [op |-> call.op, event |-> call.event,
                                      applied |-> updateOk])]
    /\ inflight' = [j \in 1..(Len(inflight) - 1) |->
                       IF j < i THEN inflight[j] ELSE inflight[j + 1]]
    /\ UNCHANGED <<edgeVars, world, retry, shut, env, now, mongoVars, pc, inCatch, req, fwdVars, response>>

NextLog ==
    \/ \E id \in Events : LogSuccessCall(id) \/ LogFailureCall(id) \/ LogCall(id)
    \/ \E i \in 1..MaxCalls : UpdateSettle(i)

SpecLog == InitLog /\ [][NextLog]_vars

----------------------------------------------------------------------------
(* isRetryableError applied to one status *)

InitRetry ==
    /\ world = [events |-> {}, outcomes |-> {}, jitters |-> {}, payloads |-> {},
                 inbound |-> {}]
    /\ edge = [e \in Events |-> "passed"]
    /\ env = LogEnv
    /\ now = 60000
    /\ retry \in {[status |-> s, called |-> FALSE, result |-> FALSE] : s \in StatusInputs}
    /\ shut = NoShutdown
    /\ InitState

(* isRetryableError(status) returns *)
IsRetryableCall ==
    /\ ~retry.called
    /\ retry' = [retry EXCEPT !.called = TRUE, !.result = isRetryableError(retry.status)]
    /\ UNCHANGED <<edgeVars, world, shut, env, now, mongoVars, pc, inCatch, req, fwdVars, logVars,
                   response>>

NextRetry == IsRetryableCall

SpecRetry == InitRetry /\ [][NextRetry]_vars

----------------------------------------------------------------------------
(* Properties of the retry loop *)

(* a failure the claims call retryable: 5xx, 429 or no response *)
RetryableFailure(o) ==
    o.kind = "reject" /\ (o.status = NoStatus \/ o.status >= 500 \/ o.status = 429)

(* a failure the claims call terminal: a 4xx other than 429 *)
TerminalFailure(o) ==
    o.kind = "reject" /\ o.status >= 400 /\ o.status <= 499 /\ o.status # 429

(* C1: when attempt n fails with a 4xx other than 429 the loop is in        *)
(* FailedTerminal from then on: n calls were made and no more, the only     *)
(* waits are the n-1 before attempt n, and the result is ok=false with      *)
(* that status                                                              *)
C1_TerminalOn4xx ==
    \A e \in Events : \A n \in 1..Len(outcomes[e]) :
       TerminalFailure(outcomes[e][n]) =>
          /\ n = Len(outcomes[e])
          /\ fwd[e] = "FailedTerminal"
          /\ Len(sent[e]) = n
          /\ Len(waits[e]) = n - 1
          /\ result[e].ok = FALSE
          /\ result[e].status = outcomes[e][n].status

C1_Witness ==
    \E e \in Events :
       /\ outcomes[e] # <<>>
       /\ outcomes[e][1].kind = "reject" /\ outcomes[e][1].status = 400
       /\ Len(sent[e]) = 1
       /\ pc[e] = "done"

(* C2: after k < maxAttempts retryable failures the loop goes on, and when  *)
(* the next call is answered successfully exactly k+1 calls were made and   *)
(* the result is ok=true with the status of that answer                     *)
C2_RetryThenSuccess ==
    \A e \in Events :
       LET os == outcomes[e]
           k == Len(os) - 1
       IN /\ (/\ os # <<>>
              /\ Len(os) < MAX_MICRO_BACKEND_RETRIES
              /\ \A i \in 1..Len(os) : RetryableFailure(os[i]))
             => fwd[e] \in {"Waiting", "Attempting"}
          /\ (/\ os # <<>>
              /\ os[Len(os)].kind = "resolve"
              /\ \A i \in 1..k : RetryableFailure(os[i]))
             => /\ k < MAX_MICRO_BACKEND_RETRIES
                /\ Len(sent[e]) = k + 1
                /\ fwd[e] = "Succeeded"
                /\ result[e].ok = TRUE
                /\ result[e].status = os[Len(os)].status

C2_Witness ==
    \E e \in Events :
       /\ Len(outcomes[e]) = 3
       /\ outcomes[e][1].status = 500
       /\ outcomes[e][2].status = 429
       /\ outcomes[e][3].kind = "resolve" /\ outcomes[e][3].status = 201
       /\ result[e].ok /\ result[e].status = 201

(* C3: at most 3 calls per invocation, numbered 1, 2, 3 in order; once      *)
(* forwardWithRetry has returned the loop is in one of the three terminal   *)
(* states, and a terminal state is never left and no call follows it        *)
C3_BoundedAttempts ==
    /\ [](\A e \in Events :
            /\ Len(sent[e]) <= 3
            /\ \A i \in 1..Len(sent[e]) : sent[e][i].n = i
            /\ fwd[e] \in {"NotStarted", "Attempting", "Waiting"} \cup Terminal
            /\ (request[e] # NoRequest /\ pc[e] \in {"record", "respond", "done"})
               => fwd[e] \in Terminal)
    /\ [][\A e \in Events :
            fwd[e] \in Terminal => (fwd'[e] = fwd[e] /\ sent'[e] = sent[e])]_vars

C3_Witness ==
    \E e \in Events :
       /\ Len(sent[e]) = 3
       /\ fwd[e] = "FailedExhausted"
       /\ pc[e] = "done"

(* C4: when all maxAttempts calls fail retryably the loop ends in           *)
(* FailedExhausted with exactly maxAttempts calls made, ok=false, and no    *)
(* wait after the last call                                                 *)
C4_Exhausted ==
    \A e \in Events :
       (/\ Len(outcomes[e]) = MAX_MICRO_BACKEND_RETRIES
        /\ \A i \in 1..Len(outcomes[e]) : RetryableFailure(outcomes[e][i]))
       => /\ fwd[e] = "FailedExhausted"
          /\ Len(sent[e]) = MAX_MICRO_BACKEND_RETRIES
          /\ Len(waits[e]) = MAX_MICRO_BACKEND_RETRIES - 1
          /\ result[e].ok = FALSE

C4_Witness ==
    \E e \in Events :
       /\ Len(outcomes[e]) = 3
       /\ outcomes[e][1].status = NoStatus
       /\ outcomes[e][2].status = 429
       /\ outcomes[e][3].status = 503
       /\ fwd[e] = "FailedExhausted"

(* C5: a 2xx or 3xx answer to attempt n ends the loop in Succeeded with     *)
(* ok=true and the status and body of the answer; attempt n is the last     *)
(* call and no wait follows it                                              *)
C5_SuccessOn2xx3xx ==
    \A e \in Events : \A n \in 1..Len(outcomes[e]) :
       (/\ outcomes[e][n].kind = "resolve"
        /\ outcomes[e][n].status >= 200
        /\ outcomes[e][n].status <= 399)
       => /\ n = Len(outcomes[e])
          /\ fwd[e] = "Succeeded"
          /\ result[e] = [ok |-> TRUE, status |-> outcomes[e][n].status,
                          body |-> outcomes[e][n].data]
          /\ Len(sent[e]) = n
          /\ Len(waits[e]) = n - 1

C5_Witness ==
    \E e \in Events :
       /\ Len(outcomes[e]) = 2
       /\ outcomes[e][2].kind = "resolve" /\ outcomes[e][2].status = 302
       /\ fwd[e] = "Succeeded"
       /\ pc[e] = "done"

(* C6: all calls of one invocation carry the same url, body and headers,    *)
(* X-Signature and X-Timestamp included                                     *)
C6_SameRequestEveryAttempt ==
    \A e \in Events : \A i, j \in 1..Len(sent[e]) :
       /\ sent[e][i].req.url = sent[e][j].req.url
       /\ sent[e][i].req.payload = sent[e][j].req.payload
       /\ sent[e][i].req.headers[1].XSignature = sent[e][j].req.headers[1].XSignature
       /\ sent[e][i].req.headers[1].XTimestamp = sent[e][j].req.headers[1].XTimestamp

(* three calls, the last one at least 6 seconds after the first *)
C6_Witness ==
    \E e \in Events :
       /\ Len(sent[e]) = 3
       /\ sent[e][3].at >= sent[e][1].at + 6000
       /\ sent[e][3].req.headers[1].XTimestamp
             # NumberToString(sent[e][3].at \div 1000)

(* C7: forwardWithRetry and forwardToMicroBackend never throw: however the  *)
(* http.post calls settle, the invocation ends by returning a result        *)
(* {ok, status, body}                                                       *)
C7_NeverThrows ==
    \A e \in Events :
       /\ fwd[e] # "Thrown"
       /\ (dest[e] = "micro-backend" /\ pc[e] # "forwarding")
          => /\ ~inCatch[e]
             /\ result[e].ok \in BOOLEAN
             /\ result[e].status \in 0..599

(* every attempt rejected without a response, the result returned all the same *)
C7_Witness ==
    \E e \in Events :
       /\ Len(outcomes[e]) = 3
       /\ \A i \in 1..3 : outcomes[e][i].status = NoStatus
       /\ result[e] = [ok |-> FALSE, status |-> 0,
                       body |-> [tag |-> "error", val |-> NoStatus]]
       /\ pc[e] = "record"

----------------------------------------------------------------------------
(* Properties of handleWebhookEntry *)

RECURSIVE SumSeq(_)
SumSeq(q) == IF q = <<>> THEN 0 ELSE q[1] + SumSeq(Tail(q))

C9_AlwaysAcknowledged ==
    \A e \in Events :
       pc[e] = "done" =>
          /\ response[e].code >= 200 /\ response[e].code <= 299
          /\ response[e].internal_event_id = e

(* C10: a failing outcome store changes neither the forwarding nor the      *)
(* response: every handled event was handed to the forwarder and answered   *)
(* with the 202                                                             *)
C10_RecordingNeverAborts ==
    \A e \in Events :
       pc[e] = "done" =>
          /\ dest[e] # "none"
          /\ response[e] = [code |-> 202, status |-> "accepted",
                            internal_event_id |-> e]

----------------------------------------------------------------------------
(* Properties of the outcome write *)

(* forwardToDestination has returned a result to the handler *)
ForwardReturned(e) == result[e] # NoResult

(* C11: forwarding that returned a result is followed by exactly one logger *)
(* call for the event: logSuccess iff the result has ok = true, logFailure  *)
(* iff it has ok = false; before the result there is no such call           *)
C11_OneWritePerResult ==
    \A e \in Events :
       /\ pc[e] \in {"forward", "forwarding", "record"} => writes[e] = <<>>
       /\ ForwardReturned(e) /\ pc[e] \in {"respond", "done"} =>
             /\ Len(writes[e]) = 1
             /\ writes[e][1].op = "logSuccess" <=> result[e].ok
             /\ writes[e][1].op = "logFailure" <=> ~result[e].ok
             /\ writes[e][1].event.status = "success" <=> result[e].ok
             /\ writes[e][1].event.event_id = e

(* a failed result (retries exhausted) recorded by one logFailure call *)
C11_Witness ==
    \E e \in Events :
       /\ pc[e] = "done"
       /\ fwd[e] = "FailedExhausted"
       /\ ~result[e].ok
       /\ Len(writes[e]) = 1
       /\ writes[e][1].op = "logFailure"

(* C12: the retry_count of the written record reflects the forwarding       *)
(* attempts performed for the event: it is their number, or the number of   *)
(* retries among them                                                       *)
C12_RetryCountReflectsAttempts ==
    \A e \in Events :
       ForwardReturned(e) /\ writes[e] # <<>> /\ sent[e] # <<>> =>
          writes[e][1].event.retry_count \in {Len(sent[e]), Len(sent[e]) - 1}

(* C13: from the first http.post call of an event until its retry loop      *)
(* reaches a terminal state, a record of the event has been written: the    *)
(* logger was called for it, and the collection holds its document unless   *)
(* that write failed                                                        *)
C13_RecordDuringForwarding ==
    \A e \in Events :
       sent[e] # <<>> /\ fwd[e] \notin Terminal =>
          /\ writes[e] # <<>>
          /\ writes[e][1].applied => Doc(store, e).status # "absent"

(* the latest applied write among ws, or none *)
LastApplied(ws) ==
    LET I == {i \in 1..Len(ws) : ws[i].applied}
    IN IF I = {} THEN [op |-> "none", event |-> NoRecord, applied |-> FALSE]
       ELSE ws[CHOOSE i \in I : \A j \in I : j <= i]

(* two documents handed to log that differ at most in their timestamp *)
SameWrite(a, b) ==
    /\ a.op = b.op
    /\ DOMAIN a.event = DOMAIN b.event
    /\ \A k \in DOMAIN a.event \ {"timestamp"} : a.event[k] = b.event[k]

(* C14: after any sequence of logSuccess, logFailure and log calls, however *)
(* they overlap, the collection holds at most one document per event_id,    *)
(* and a write that repeats the write applied before it leaves the          *)
(* document as it was apart from its timestamp                              *)
C14_UpsertIdempotent ==
    /\ [](\A id \in Events : Len(store[id]) <= 1)
    /\ [][\A id \in Events :
             /\ Len(writes'[id]) = Len(writes[id]) + 1
             /\ writes'[id][Len(writes'[id])].applied
             /\ SameWrite(LastApplied(writes[id]), writes'[id][Len(writes'[id])])
             => /\ Len(store'[id]) = Len(store[id])
                /\ Doc(store', id) =
                      [Doc(store, id) EXCEPT
                          !.timestamp = writes'[id][Len(writes'[id])].event.timestamp]]_vars

(* the same logFailure applied twice at different times to one event id,    *)
(* one document in the collection                                           *)
C14_Witness ==
    \E id \in Events :
       /\ Len(writes[id]) >= 2
       /\ writes[id][1].applied /\ writes[id][2].applied
       /\ writes[id][1].op = "logFailure"
       /\ SameWrite(writes[id][1], writes[id][2])
       /\ writes[id][1].event.timestamp # writes[id][2].event.timestamp
       /\ Len(store[id]) = 1

----------------------------------------------------------------------------
(* Properties of forwardToMicroBackend *)

(* C15: with MICRO_BACKEND_URL unset, forwardToMicroBackend makes no HTTP   *)
(* call and returns ok = true with status 204, whatever the payload and     *)
(* the rest of the configuration                                            *)
C15_SkipWhenUrlUnset ==
    \A e \in Events :
       dest[e] = "micro-backend" /\ env.MICRO_BACKEND_URL = "" =>
          /\ sent[e] = <<>>
          /\ fwd[e] = "NotStarted"
          /\ result[e] = [ok |-> TRUE, status |-> 204, body |-> NoBody]

(* skipped with neither URL nor secret configured *)
C15_Witness ==
    \E e \in Events :
       /\ dest[e] = "micro-backend"
       /\ env.MICRO_BACKEND_URL = ""
       /\ env.MICRO_BACKEND_HMAC_SECRET = ""
       /\ result[e].status = 204
       /\ pc[e] = "done"

(* C16: with the URL configured and MICRO_BACKEND_HMAC_SECRET absent,       *)
(* forwardToMicroBackend neither throws nor calls the destination nor       *)
(* waits nor retries: it returns ok = false, and the handler records the    *)
(* failure with logFailure and still answers 202                            *)
C16_SecretMissingIsTerminal ==
    \A e \in Events :
       /\ dest[e] = "micro-backend"
       /\ env.MICRO_BACKEND_URL # ""
       /\ env.MICRO_BACKEND_HMAC_SECRET = ""
       => /\ sent[e] = <<>> /\ waits[e] = <<>> /\ attempt[e] = 0
          /\ fwd[e] = "NotStarted"
          /\ ~inCatch[e]
          /\ result[e].ok = FALSE /\ result[e].status = 0
          /\ pc[e] \in {"respond", "done"} =>
                /\ Len(writes[e]) = 1
                /\ writes[e][1].op = "logFailure"
                /\ writes[e][1].event.error_code = <<"forward_failed_", "unknown">>
                /\ writes[e][1].applied =>
                      /\ Doc(store, e).status = "processing"
                      /\ Doc(store, e).error_code = <<"forward_failed_", "unknown">>
          /\ pc[e] = "done" => response[e].code = 202

(* the failure document of an event refused for want of the secret *)
C16_Witness ==
    \E e \in Events :
       /\ env.MICRO_BACKEND_URL # ""
       /\ env.MICRO_BACKEND_HMAC_SECRET = ""
       /\ pc[e] = "done"
       /\ sent[e] = <<>>
       /\ Doc(store, e).error_code = <<"forward_failed_", "unknown">>

(* inbound secrets, signed bodies and sender clocks an inbound request      *)
(* could have had instead                                                   *)
OtherInboundSecrets == {"S1", "S2", "S9"}
OtherInboundTimes == {0, 59000, 60999}

(* C17: the inbound signature is never forwarded, and the outbound request  *)
(* is determined by the envelope, the outbound secret, the outbound         *)
(* timestamp and the outbound configuration: the same event received with   *)
(* any other inbound X-Signature, X-Timestamp and inbound secret yields     *)
(* the same outbound request, signed under the outbound secret              *)
C17_InboundNeverForwarded ==
    \A e \in Events :
       sent[e] # <<>> =>
          /\ request[e].headers[1].XSignature # req[e].headers.xSignature
          /\ request[e].headers[1].XSignature.key = env.MICRO_BACKEND_HMAC_SECRET
          /\ \A i \in 1..Len(sent[e]) :
                \A s \in OtherInboundSecrets, b \in Payloads, t \in OtherInboundTimes :
                   sent[e][i].req =
                      BuildRequest(e, [req[e] EXCEPT !.headers = InboundHeaders(s, b, t)],
                                   [env EXCEPT !.HMAC_SECRET = s], sent[e][1].at)

(* three calls made for an event received under inbound secret S1 and       *)
(* signed under outbound secret S2                                          *)
C17_Witness ==
    \E e \in Events :
       /\ Len(sent[e]) = 3
       /\ req[e].headers.xSignature.key = "S1"
       /\ sent[e][3].req.headers[1].XSignature.key = "S2"

(* C18: on every outbound request the X-Timestamp header is the timestamp   *)
(* that was signed, the X-Signature header is the bare hex HMAC-SHA256      *)
(* digest, under the outbound secret, of timestamp + "." + compact JSON of  *)
(* the body, and the body sent is the envelope that was signed              *)
C18_SignatureCoversSentBody ==
    \A e \in Events :
       \A i \in 1..Len(sent[e]) :
          LET h == sent[e][i].req.headers[1]
              body == sent[e][i].req.payload[1]
          IN /\ h.XTimestamp = NumberToString(sent[e][1].at \div 1000)
             /\ h.XSignature =
                   HmacSha256Hex(env.MICRO_BACKEND_HMAC_SECRET,
                                 [ts |-> h.XTimestamp, sep |-> ".",
                                  json |-> JsonStringify(body)])
             /\ body = adaptPayloadForMicroBackend(req[e].normalizedPayload, e,
                                                   req[e].correlationId, sent[e][1].at)

(* a third call, made in a later second than the one signed, for a body     *)
(* without correlation id                                                   *)
C18_Witness ==
    \E e \in Events :
       /\ Len(sent[e]) = 3
       /\ sent[e][3].at \div 1000 > sent[e][1].at \div 1000
       /\ req[e].correlationId = ""
       /\ sent[e][3].req.headers[1].XTimestamp = NumberToString(sent[e][1].at \div 1000)

(* C19: every outbound request carries Content-Type: application/json,      *)
(* X-Signature, X-Timestamp and X-Device-ID; it carries Authorization:      *)
(* Bearer <token> exactly when a token is configured, and X-Correlation-Id, *)
(* with the correlation id as its value, exactly when one is available      *)
C19_OutboundHeaders ==
    \A e \in Events :
       \A i \in 1..Len(sent[e]) :
          LET h == sent[e][i].req.headers[1] IN
          /\ h.ContentType = "application/json"
          /\ h.XSignature.alg = "sha256"
          /\ h.XTimestamp # <<>>
          /\ h.XDeviceID = env.MICRO_BACKEND_DEVICE_ID /\ h.XDeviceID # ""
          /\ env.MICRO_BACKEND_JWT # "" => h.Authorization = <<"Bearer ", env.MICRO_BACKEND_JWT>>
          /\ env.MICRO_BACKEND_JWT = "" => h.Authorization = <<>>
          /\ req[e].correlationId # "" => h.XCorrelationId = req[e].correlationId
          /\ req[e].correlationId = "" => h.XCorrelationId = ""

(* a request sent without token and with a correlation id *)
C19_Witness ==
    \E e \in Events :
       /\ sent[e] # <<>>
       /\ env.MICRO_BACKEND_JWT = ""
       /\ req[e].correlationId = "corr_1"
       /\ sent[e][1].req.headers[1].Authorization = <<>>
       /\ sent[e][1].req.headers[1].XCorrelationId = "corr_1"

(* C20: the envelope of every forwarded event has source 'webhook-gateway', *)
(* the given internal event id and the whole original body as payload; its  *)
(* event_type is the body's type when the body has one (a falsy one such as *)
(* "" or 0 included) and the default otherwise, and its external_id is the  *)
(* body's id when the body has one and the default otherwise                *)
C20_AdaptKeepsPresentFields ==
    \A e \in Events :
       request[e] # NoRequest =>
          LET a == request[e].payload[1]
              p == req[e].normalizedPayload
          IN /\ a.source = "webhook-gateway"
             /\ a.internal_event_id = e
             /\ a.payload = p
             /\ a.event_type = IF p.type # JsUndefined THEN p.type
                               ELSE JsStr("webhook_received")
             /\ a.external_id = IF p.id # JsUndefined THEN p.id ELSE JsStr(e)

----------------------------------------------------------------------------
(* Properties of the middleware chain *)

(* the requests that presented fingerprint f and observed Fresh *)
FreshFor(f) == {e \in Events : edge[e] = "passed" /\ inbound[e].fingerprint = f}

(* C21: of the callers of checkAndRecord that present one fingerprint, in   *)
(* every interleaving at most one observes Fresh and every other one        *)
(* observes Duplicate; each decision is the outcome of one insert-if-absent *)
(* step: Fresh iff that step inserted the fingerprint                       *)
C21_AtMostOneFresh ==
    /\ [](\A f \in Fingerprints :
             /\ Cardinality(FreshFor(f)) <= 1
             /\ replays[f] <= 1
             /\ \A e \in Events :
                   edge[e] = "duplicate" /\ inbound[e].fingerprint = f =>
                      replays[f] = 1)
    /\ [][\A e \in Events :
             edge[e] = "guard" /\ edge'[e] # "guard" =>
                LET f == inbound[e].fingerprint IN
                /\ edge'[e] = "passed" <=> (replays[f] = 0 /\ replays'[f] = 1)
                /\ edge'[e] = "duplicate" <=> (replays[f] = 1 /\ replays' = replays)]_vars

(* two requests with one fingerprint: the later one to arrive observed      *)
(* Fresh, the other one Duplicate                                           *)
C21_Witness ==
    /\ edge["evt_2"] = "passed"
    /\ edge["evt_1"] = "duplicate"
    /\ inbound["evt_1"].fingerprint = inbound["evt_2"].fingerprint
    /\ pc["evt_2"] = "idle"

(* the requests handed to a forwarder *)
Forwarded == {e \in Events : dest[e] # "none"}

(* of two requests with one fingerprint at most one reaches a forwarder,    *)
(* and a Duplicate never does                                               *)
ForwardedAtMostOnce ==
    /\ \A e \in Events :
          edge[e] = "duplicate" =>
             /\ e \notin Forwarded /\ sent[e] = <<>> /\ pc[e] = "idle"
    /\ \A f \in Fingerprints :
          Cardinality({e \in Forwarded : inbound[e].fingerprint = f}) <= 1

StampValue(cs) ==
    IF \E n \in 0..200 : NumberToString(n) = cs
    THEN CHOOSE n \in 0..200 : NumberToString(n) = cs
    ELSE NaN

(* the request carries the digest of its path and body under the inbound    *)
(* secret, with or without the sha256= prefix                               *)
ValidlySigned(x) ==
    x.xSignature \in {SignatureHeader("prefixed", env.HMAC_SECRET, x),
                      SignatureHeader("bare", env.HMAC_SECRET, x)}

(* C23: a validly signed request whose timestamp is not an integer, or is   *)
(* more than 60 seconds before or after now, is rejected with 401, the      *)
(* integer ones with reason timestamp_out_of_window; a validly signed       *)
(* request whose timestamp is exactly 60 seconds before or after now, or    *)
(* nearer, passes verification                                              *)
C23_TimestampWindow ==
    \A e \in Events :
       LET x == inbound[e]
           ts == StampValue(x.xTimestamp)
           nowSec == EdgeStart \div 1000
       IN edge[e] # "new" /\ ValidlySigned(x) /\ x.xTimestamp # <<>> =>
             /\ ts = NaN => edge[e] = "rejected" /\ response[e].code = 401
             /\ ts # NaN /\ (ts - nowSec >= 61 \/ nowSec - ts >= 61) =>
                   /\ edge[e] = "rejected"
                   /\ response[e] = Reject(401, "timestamp_out_of_window")
             /\ ts # NaN /\ ts - nowSec <= 60 /\ nowSec - ts <= 60 =>
                   response[e].code # 401

(* a validly signed request stamped exactly 61 seconds after now, rejected *)
C23_Witness ==
    \E e \in Events :
       /\ ValidlySigned(inbound[e])
       /\ StampValue(inbound[e].xTimestamp) = EdgeStart \div 1000 + 61
       /\ edge[e] = "rejected"
       /\ response[e].status = "timestamp_out_of_window"

AuthenticationReasons ==
    {"missing_signature", "missing_timestamp", "invalid_signature",
     "timestamp_out_of_window"}

----------------------------------------------------------------------------
(* Properties of forwardToDestination and of the timing of the retry loop *)

C26_BackoffSchedule ==
    \A e \in Events :
       /\ Len(waits[e]) <= Len(sent[e])
       /\ fwd[e] # "Waiting" /\ sent[e] # <<>> => Len(waits[e]) < Len(sent[e])
       /\ sent[e] # <<>> => sent[e][1].at = request[e].payload[1].occurred_at
       /\ \A n \in 1..Len(waits[e]) :
             /\ waits[e][n] >= (2 ^ n) * 1000
             /\ waits[e][n] - (2 ^ n) * 1000 <= 500
             /\ n = 1 => waits[e][n] >= 2000
             /\ n = 2 => waits[e][n] >= 4000
       /\ \A n \in 1..(Len(sent[e]) - 1) :
             sent[e][n + 1].at - sent[e][n].at >= waits[e][n]

(* a third attempt, more than 6000 ms after the first *)
C26_Witness ==
    \E e \in Events :
       /\ Len(sent[e]) = 3
       /\ waits[e] = <<2250, 4500>>
       /\ sent[e][2].at - sent[e][1].at = 2250
       /\ sent[e][3].at - sent[e][2].at = 4500

(* the http.post calls of an event that have not settled *)
InFlight(e) == Len(sent[e]) - Len(outcomes[e])

(* C27: the attempts of one event are strictly sequential: at most one      *)
(* http.post of the event is in flight, and attempt n + 1 is started only   *)
(* when attempt n has settled as a retryable failure and the backoff wait   *)
(* that followed it has elapsed                                             *)
C27_SequentialRetries ==
    /\ [](\A e \in Events :
             /\ InFlight(e) \in {0, 1}
             /\ InFlight(e) = 1 <=> fwd[e] = "Attempting"
             /\ \A n \in 1..(Len(sent[e]) - 1) :
                   /\ RetryableFailure(outcomes[e][n])
                   /\ Len(waits[e]) >= n
                   /\ sent[e][n + 1].at >= sent[e][n].at + waits[e][n]
                   /\ sent[e][n + 1].n = sent[e][n].n + 1)
    /\ [][\A e \in Events :
             Len(sent'[e]) > Len(sent[e]) /\ sent[e] # <<>> =>
                /\ InFlight(e) = 0
                /\ fwd[e] = "Waiting"
                /\ now' >= deadline[e]]_vars

(* the third call of an event in flight, the two before it settled *)
C27_Witness ==
    \E e \in Events :
       /\ Len(sent[e]) = 3
       /\ Len(outcomes[e]) = 2
       /\ fwd[e] = "Attempting"

----------------------------------------------------------------------------
(* Properties of concurrent handlers *)

(* the next step of the handler of event b *)
StepOf(b) ==
    \/ Receive(b) \/ GetDbEnter(b) \/ GetDbConnected(b) \/ GetDbIndexed(b)
    \/ EnsureCollection(b) \/ ForwardToMicroBackend(b) \/ ForwardToN8n(b)
    \/ HttpSettle(b) \/ BackoffElapsed(b) \/ Record(b) \/ Respond(b)
    \/ CatchLog(b) \/ Respond500(b)

(* C28: forwarding and retrying one event blocks only that event's handler: *)
(* while event a has a call in flight or waits in backoff, the handler of   *)
(* any other event b can take its next step, from acceptance to the         *)
(* acknowledgment                                                           *)
C28_OtherEventsNotBlocked ==
    \A a, b \in Events :
       a # b /\ b \in world.events /\ fwd[a] \in {"Attempting", "Waiting"}
             /\ pc[b] # "done"
       => ENABLED StepOf(b)

(* event b was received after event a had started to retry, and has been    *)
(* forwarded, recorded and acknowledged while a still waits in backoff      *)
C28_Witness ==
    \E a, b \in Events :
       /\ a # b
       /\ fwd[a] = "Waiting" /\ Len(sent[a]) = 2
       /\ sent[b] # <<>> /\ sent[b][1].at >= sent[a][2].at
       /\ fwd[b] = "Succeeded"
       /\ writes[b] # <<>> /\ writes[b][1].op = "logSuccess"
       /\ response[b].code = 202
       /\ response[a] = NoResponse

(* the handler of event e works with the Db handle that getDb returned to it *)
HoldsDb(e) ==
    /\ db # 0
    /\ ~inCatch[e]
    /\ pc[e] \in {"ensureCollection", "forward", "forwarding", "record", "respond"}

(* C29: handlers share no in-process mutable state: no two request handlers *)
(* work with a value read from the module-level connection cache of getDb   *)
C29_NoSharedInProcessCache ==
    \A a, b \in Events : a # b => ~(HoldsDb(a) /\ HoldsDb(b))

----------------------------------------------------------------------------
(* Properties of isRetryableError *)

(* C30: isRetryableError returns true exactly for a null or undefined       *)
(* status, a status of 500 or more, 429 and 408, and false for every other  *)
(* status                                                                   *)
C30_RetryableExactly ==
    retry.called =>
       (retry.result <=> \/ retry.status.t \in {"null", "undefined"}
                         \/ /\ retry.status.t = "number"
                            /\ \/ retry.status.n >= 500
                               \/ retry.status.n \in {429, 408})

(* the request timeout 408 was found retryable *)
C30_Witness ==
    retry.called /\ retry.status = JsNum(408) /\ retry.result

----------------------------------------------------------------------------
(* Properties relating forwardWithRetry to the retry policy of accessGuard *)

(* err?.response?.status as the argument of isRetryableError *)
AsJsStatus(status) == IF status = NoStatus THEN JsUndefined ELSE JsNum(status)

(* after the k-th call of event e failed, the loop went on to another one *)
WentOn(e, k) == Len(sent[e]) > k \/ (Len(sent[e]) = k /\ fwd[e] = "Waiting")

(* C31: for every failed attempt before the last one, forwardWithRetry      *)
(* makes another attempt if and only if isRetryableError(status) is true    *)
C31_RetryAgreesWithPolicy ==
    \A e \in Events : \A k \in 1..Len(outcomes[e]) :
       outcomes[e][k].kind = "reject" /\ k < MAX_MICRO_BACKEND_RETRIES
       => (WentOn(e, k) <=> isRetryableError(AsJsStatus(outcomes[e][k].status)))

----------------------------------------------------------------------------
(* Properties of the record of an exhausted event *)

(* the retry loop of event e gave up and the handler has recorded that *)
ExhaustedRecorded(e) ==
    fwd[e] = "FailedExhausted" /\ pc[e] \in {"respond", "done"} /\ writes[e] # <<>>

(* the result of an exhausted loop: ok = false, status 0, and the message   *)
(* of the last error as body, whatever statuses the attempts observed       *)
ExhaustedResult(e) ==
    /\ result[e].ok = FALSE
    /\ result[e].status = 0
    /\ result[e].body = [tag |-> "error", val |-> LastError(outcomes[e])]

(* C32 as stated: an exhausted event has the result {ok: false, status: 0,  *)
(* body: {error: last message}}, and its record carries the error code      *)
(* forward_failed_unknown and no response_status                            *)
C32_ExhaustedNoResponseStatus ==
    \A e \in Events :
       /\ fwd[e] = "FailedExhausted" => ExhaustedResult(e)
       /\ ExhaustedRecorded(e) =>
             /\ writes[e][1].event.error_code = <<"forward_failed_", "unknown">>
             /\ writes[e][1].event.response_status = NoStatus

(* C32 amended: the record of an exhausted event carries the error code     *)
(* forward_failed_unknown and the response_status 0, never a status that    *)
(* an attempt observed                                                      *)
C32_ExhaustedRecordedAsUnknown ==
    \A e \in Events :
       /\ fwd[e] = "FailedExhausted" => ExhaustedResult(e)
       /\ ExhaustedRecorded(e) =>
             /\ writes[e][1].op = "logFailure"
             /\ writes[e][1].event.error_code = <<"forward_failed_", "unknown">>
             /\ writes[e][1].event.response_status = 0

(* an event whose attempts observed 429 and then 503 twice was recorded *)
C32_Witness ==
    \E e \in Events :
       /\ ExhaustedRecorded(e)
       /\ Len(outcomes[e]) = MAX_MICRO_BACKEND_RETRIES
       /\ outcomes[e][1].status = 429
       /\ outcomes[e][2].status = 503
       /\ outcomes[e][3].status = 503
       /\ writes[e][1].applied
       /\ Doc(store, e).response_status = 0

----------------------------------------------------------------------------
(* Properties of the status written by logFailure *)

(* largest retry count handed to logFailure *)
MaxRetryCount == 8

----------------------------------------------------------------------------
(* Properties of a record written more than once *)

(* C34: after any sequence of logFailure and logSuccess calls for one event *)
(* id, a stored record with status 'success' carries no error_code,         *)
(* error_message or last_error of an earlier failure write                  *)
C34_SuccessHasNoStaleError ==
    \A id \in Events :
       Doc(store, id).status = "success" =>
          /\ Doc(store, id).error_code = <<>>
          /\ Doc(store, id).error_message = <<>>
          /\ Doc(store, id).last_error = <<>>

----------------------------------------------------------------------------
(* Properties of the response of handleWebhookEntry *)

----------------------------------------------------------------------------
(* Termination of forwardWithRetry *)

(* C36: forwardWithRetry always terminates: when every http.post settles    *)
(* and every backoff timer fires, each invocation returns a result, after   *)
(* at most maxRetries calls and maxRetries - 1 waits; with maxRetries = 0   *)
(* the loop is not entered and the result has ok = false                    *)
C36_ForwardWithRetryTerminates ==
    /\ [](\A e \in Events :
            /\ Len(sent[e]) <= MAX_MICRO_BACKEND_RETRIES
            /\ Len(waits[e]) <= MAX_MICRO_BACKEND_RETRIES - 1
            /\ fwd[e] \in Terminal => result[e] # NoResult
            /\ ~LoopTest(1, 0)
            /\ ~OnExhausted(LastError(<<>>)).ok)
    /\ \A e \in Events :
          fwd[e] \in {"Attempting", "Waiting"} ~> fwd[e] \in Terminal

(* an invocation that returned after all its calls and waits *)
C36_Witness ==
    \E e \in Events :
       /\ fwd[e] = "FailedExhausted"
       /\ Len(sent[e]) = MAX_MICRO_BACKEND_RETRIES
       /\ Len(waits[e]) = MAX_MICRO_BACKEND_RETRIES - 1
       /\ result[e] # NoResult

----------------------------------------------------------------------------
(* Properties of getDb *)

(* C37: when SERVICE_ROLE is 'webhook-edge', getDb hands out no database    *)
(* handle: no handler of the public edge works with one                     *)
C37_EdgeGetsNoDbHandle ==
    env.SERVICE_ROLE = "webhook-edge" => \A e \in Events : ~HoldsDb(e)

(* C38: getDb is a connection singleton under concurrency: while no getDb   *)
(* call has failed, at most one MongoClient has been created, so that no    *)
(* client is left unreferenced, and every handler holding a handle holds    *)
(* that of the one client                                                   *)
C38_SingleClient ==
    (\A e \in Events : ~inCatch[e]) =>
       /\ nClients <= 1
       /\ \A e \in Events : HoldsDb(e) => db = 1

----------------------------------------------------------------------------
(* Properties of getDb, closeDb and shutdown in the worker process *)

(* a getDb call is between its entry and its return *)
GetDbInProgress(e) == pc[e] \in {"getDb", "connecting", "indexing"}

(* C39: in every interleaving of getDb and closeDb, getDb never throws      *)
(* because of the race and never returns a handle that is null or whose     *)
(* client has been closed or is being closed; a closeDb that completes      *)
(* leaves client and db null, and the next getDb opens a fresh connection   *)
C39_GetDbCloseDbRaceFree ==
    /\ [](~shut.typeError)
    /\ [][\A e \in Events :
             GetDbInProgress(e) /\ pc'[e] \in {"ensureCollection", "catchLog"}
             => db' # 0 /\ db' \notin (shut'.closing \cup shut'.closed)]_vars
    /\ [][\A s \in Signals :
             /\ shut.pc[s] = "closing" /\ shut'.pc[s] = "exit"
             /\ shut'.log[s][Len(shut'.log[s])].ok
             => client' = 0 /\ db' = 0]_vars
    /\ [][client' # client /\ client' # 0
             => client' \notin (shut.closing \cup shut.closed)]_vars

(* the steps of a shutdown call that have settled, in order *)
StepsOf(s) == [i \in 1..Len(shut.log[s]) |-> shut.log[s][i].step]

ShutdownOrder == <<"stopWorkers", "closeDb", "exit">>

====
